---- MODULE Spec2Model ----
(***************************************************************************)
(* Model of the ARES tool-using agent: the Agent orchestrator              *)
(* (myagent/agent.py), the MCP client manager (myagent/client.py), and the *)
(* programs that drive them (run_agent.py, backend.py with main.py).       *)
(*                                                                         *)
(* Text is modelled as a sequence of one-character strings, so that the    *)
(* regular expressions and the strip/split calls of the source are         *)
(* computed on the characters, as Python computes them.                    *)
(***************************************************************************)
EXTENDS Integers, Sequences, FiniteSets, TLC

(***************************************************************************)
(* Characters                                                              *)
(***************************************************************************)

\* [A-Za-z0-9\_] of tool_pattern and func_pattern
IdentChars ==
    {"a","b","c","d","e","f","g","h","i","j","k","l","m",
     "n","o","p","q","r","s","t","u","v","w","x","y","z",
     "A","B","C","D","E","F","G","H","I","J","K","L","M",
     "N","O","P","Q","R","S","T","U","V","W","X","Y","Z",
     "0","1","2","3","4","5","6","7","8","9","_"}

\* \s of the patterns and the default character set of str.strip()
Whitespace == {" ", "\t", "\n", "\r", "\f"}

\* the grave accent (U+0060); a TLA+ string cannot hold that character, so
\* this token stands for it
Backtick == "GRAVE"

\* the argument of response.lstrip: the characters ( ) < > { } and U+0060
StrayChars == {"(", ")", "<", ">", "{", "}", Backtick}

\* the argument of response.strip("[]")
BracketChars == {"[", "]"}

(***************************************************************************)
(* str.lstrip / str.rstrip / str.strip / str.split                         *)
(***************************************************************************)

RECURSIVE lstrip(_, _)
lstrip(s, C) ==
    IF s # <<>> /\ Head(s) \in C THEN lstrip(Tail(s), C) ELSE s

RECURSIVE rstrip(_, _)
rstrip(s, C) ==
    IF s # <<>> /\ s[Len(s)] \in C
    THEN rstrip(SubSeq(s, 1, Len(s) - 1), C)
    ELSE s

strip(s, C) == rstrip(lstrip(s, C), C)

RECURSIVE split(_, _)
split(s, c) ==
    IF \E i \in 1..Len(s) : s[i] = c
    THEN LET i == CHOOSE i \in 1..Len(s) :
                      s[i] = c /\ \A k \in 1..(i - 1) : s[k] # c
         IN  <<SubSeq(s, 1, i - 1)>> \o split(SubSeq(s, i + 1, Len(s)), c)
    ELSE <<s>>

(***************************************************************************)
(* Regular expressions.  A position is the index of the next character to  *)
(* read (1..Len(s)+1); each operator maps the set of positions at which a  *)
(* piece of the pattern may start to the set at which it may end.          *)
(***************************************************************************)

\* a literal character
Lit(P, s, c) == {p + 1 : p \in {q \in P : q <= Len(s) /\ s[q] = c}}

\* x? for a character class
Opt(P, s, C) == P \cup {p + 1 : p \in {q \in P : q <= Len(s) /\ s[q] \in C}}

\* [A-Za-z0-9\_]+
IdentPlus(P, s) ==
    {j \in 2..(Len(s) + 1) :
        \E i \in P : i < j /\ \A k \in i..(j - 1) : s[k] \in IdentChars}

\* .+   (the dot does not match a newline)
DotPlus(P, s) ==
    {j \in 2..(Len(s) + 1) :
        \E i \in P : i < j /\ \A k \in i..(j - 1) : s[k] # "\n"}

\* one iteration of the group  [A-Za-z0-9\_]+=\"?.+\"?,?\s?
ParamIter(P, s) ==
    Opt(Opt(Opt(DotPlus(Opt(Lit(IdentPlus(P, s), s, "="), s, {"\""}), s),
                s, {"\""}), s, {","}), s, Whitespace)

\* ( ... )*  of the parameter group
RECURSIVE ParamStar(_, _)
ParamStar(P, s) ==
    LET N == P \cup ParamIter(P, s)
    IN  IF N = P THEN P ELSE ParamStar(N, s)

\* CallBody without the closing parenthesis
CallBodyUnclosed(P, s) == ParamStar(Lit(IdentPlus(P, s), s, "("), s)

\* [A-Za-z0-9\_]+\( (params)* \)
CallBody(P, s) == Lit(ParamStar(Lit(IdentPlus(P, s), s, "("), s), s, ")")

\* one iteration of the outer group of tool_pattern:  call ,? \s?
CallIter(P, s) == Opt(Opt(CallBody(P, s), s, {","}), s, Whitespace)

\* ( ... )+  of the outer group: the positions after one or more calls
RECURSIVE CallStar(_, _)
CallStar(P, s) ==
    LET N == P \cup CallIter(P, s)
    IN  IF N = P THEN P ELSE CallStar(N, s)

CallPlus(P, s) == CallStar(CallIter(P, s), s)

\* self.tool_pattern.match(response): anchored at the start of the text,
\* not at its end
tool_pattern_match(s) == Lit(CallPlus(Lit({1}, s, "["), s), s, "]") # {}

\* tool_pattern matches and the match ends where the text ends
tool_pattern_fullmatch(s) ==
    (Len(s) + 1) \in Lit(CallPlus(Lit({1}, s, "["), s), s, "]")

\* Agent._is_tool_required
is_tool_required(response) == tool_pattern_match(response)

(***************************************************************************)
(* func_pattern.findall(signature)[0]: the leftmost match, with the groups *)
(* the backtracking matcher captures (greedy alternatives first).          *)
(***************************************************************************)

\* the end of the longest identifier run that starts at i
IdentEnd(s, i) ==
    CHOOSE j \in i..(Len(s) + 1) :
        /\ \A k \in i..(j - 1) : s[k] \in IdentChars
        /\ (j = Len(s) + 1 \/ s[j] \notin IdentChars)

\* can (params)*\) be matched from position t
ParamsClose(s, t) == Lit(ParamStar({t}, s), s, ")") # {}

\* the ways one iteration of the parameter group can be matched from i so
\* that the rest of the pattern still matches: <<q, p, a, b, c, t>> with
\* q, a, b, c = 1 when the optional quote, quote, comma, whitespace is
\* taken, p the end of .+ and t the end of the iteration
IterChoices(s, i) ==
    LET e == IdentEnd(s, i)
    IN  IF ~(e > i /\ e <= Len(s) /\ s[e] = "=") THEN {}
        ELSE
        {ch \in {0, 1} \X ((e + 2)..(Len(s) + 1)) \X {0, 1} \X {0, 1}
                 \X {0, 1} \X ((e + 2)..(Len(s) + 1)) :
            LET q == ch[1]
                p == ch[2]
                a == ch[3]
                b == ch[4]
                c == ch[5]
                t == ch[6]
                d == e + 1 + q
            IN  /\ q = 1 => (e + 1 <= Len(s) /\ s[e + 1] = "\"")
                /\ d < p
                /\ \A k \in d..(p - 1) : s[k] # "\n"
                /\ t = p + a + b + c
                /\ a = 1 => (p <= Len(s) /\ s[p] = "\"")
                /\ b = 1 => (p + a <= Len(s) /\ s[p + a] = ",")
                /\ c = 1 => (p + a + b <= Len(s) /\ s[p + a + b] \in Whitespace)
                /\ ParamsClose(s, t)}

\* the order in which the matcher tries them: greedy first
Before(x, y) ==
    \E n \in 1..5 : (\A m \in 1..(n - 1) : x[m] = y[m]) /\ x[n] > y[n]

FirstChoice(s, i) ==
    CHOOSE x \in IterChoices(s, i) :
        \A y \in IterChoices(s, i) : y = x \/ Before(x, y)

\* the text of the last iteration of the parameter group ('' when the
\* group did not take part in the match)
RECURSIVE params_group(_, _)
params_group(s, i) ==
    IF IterChoices(s, i) = {} THEN <<>>
    ELSE LET t == FirstChoice(s, i)[6]
         IN  IF IterChoices(s, t) # {}
             THEN params_group(s, t)
             ELSE SubSeq(s, i, t - 1)

\* the start positions at which func_pattern matches
FuncStarts(s) ==
    {i \in 1..Len(s) :
        LET j == IdentEnd(s, i)
        IN  j > i /\ j <= Len(s) /\ s[j] = "(" /\ ParamsClose(s, j + 1)}

\* res[0] of  res := self.func_pattern.findall(signature)
func_pattern_first(s) ==
    LET i == CHOOSE i \in FuncStarts(s) : \A k \in FuncStarts(s) : i <= k
        j == IdentEnd(s, i)
    IN  [name |-> SubSeq(s, i, j - 1), param_string |-> params_group(s, j + 1)]


(***************************************************************************)
(* Python dictionaries: functions with a finite domain                      *)
(***************************************************************************)

EmptyDict == [x \in {} |-> 0]

DictSet(d, k, v) == [x \in (DOMAIN d) \cup {k} |-> IF x = k THEN v ELSE d[x]]

\* dict.get(k, default)
DictGet(d, k, default) == IF k \in DOMAIN d THEN d[k] ELSE default

(***************************************************************************)
(* utils.param2dict: the parameter string as a key -> value mapping; a     *)
(* piece without '=' contributes nothing                                    *)
(***************************************************************************)

RECURSIVE pairs2dict(_)
pairs2dict(pieces) ==
    IF pieces = <<>> THEN EmptyDict
    ELSE LET piece == strip(Head(pieces), Whitespace)
             rest  == pairs2dict(Tail(pieces))
         IN  IF \E i \in 1..Len(piece) : piece[i] = "="
             THEN LET kv == split(piece, "=")
                  IN  IF kv[1] \in DOMAIN rest THEN rest
                      ELSE DictSet(rest, kv[1],
                                   strip(SubSeq(piece, Len(kv[1]) + 2, Len(piece)),
                                         {"\""}))
             ELSE rest

param2dict(param_string) ==
    IF param_string = <<>> THEN EmptyDict
    ELSE pairs2dict(split(param_string, ","))

(***************************************************************************)
(* Agent.get_func_props: the (name, params) pairs of a tool-call text      *)
(***************************************************************************)

RECURSIVE signatures2props(_)
signatures2props(sigs) ==
    IF sigs = <<>> THEN <<>>
    ELSE LET signature == strip(Head(sigs), Whitespace)
         IN  IF FuncStarts(signature) # {}
             THEN LET res == func_pattern_first(signature)
                  IN  <<[name  |-> res.name,
                         param |-> param2dict(res.param_string)]>>
                      \o signatures2props(Tail(sigs))
             ELSE signatures2props(Tail(sigs))

\* get_func_props that stops after the first signature
get_func_props_first(response) ==
    signatures2props(SubSeq(split(strip(response, BracketChars), ","), 1, 1))

get_func_props(response) ==
    signatures2props(split(strip(response, BracketChars), ","))

(***************************************************************************)
(* Texts                                                                   *)
(***************************************************************************)

echo_tool    ==
    <<"e","c","h","o","_","t","o","o","l">>
reverse_tool ==
    <<"r","e","v","e","r","s","e","_","t","o","o","l">>
nope_tool    ==
    <<"n","o","p","e">>

\* outputs of the language model
OutPlain      ==
    <<"4">>
OutOneCall    ==
    <<"[","e","c","h","o","_","t","o","o","l","(","t","e","x","t","=","\"","h","i","\"",")","]">>
OutTwoCalls   ==
    <<"[","e","c","h","o","_","t","o","o","l","(","t","e","x","t","=","\"","h","i","\"",")",","," ","r","e","v","e","r","s","e","_","t","o","o","l","(","t","e","x","t","=","\"","a","b","\"",")","]">>
OutUnknown    ==
    <<"[","n","o","p","e","(",")","]">>
OutTwoParams  ==
    <<"[","e","c","h","o","_","t","o","o","l","(","a","=","\"","1","\"",","," ","b","=","\"","2","\"",")","]">>
OutWrapped    ==
    <<Backtick,"[","e","c","h","o","_","t","o","o","l","(",")","]"," ","o","k"," ">>
OutLateUnknown ==
    <<"[","e","c","h","o","_","t","o","o","l","(","t","e","x","t","=","\"","h","i","\"",")",","," ","n","o","p","e","(",")","]">>
OutAnswer     ==
    <<" ","h","i","!"," ">>

\* the outputs the model may give in the first phase
ModelOutputs ==
    {OutPlain, OutOneCall, OutTwoCalls, OutUnknown, OutTwoParams,
     OutWrapped, OutLateUnknown}

\* the same tool asked for twice
OutSameTwice  ==
    <<"[","e","c","h","o","_","t","o","o","l","(","t","e","x","t","=","\"","h","i","\"",")",","," ","e","c","h","o","_","t","o","o","l","(","t","e","x","t","=","\"","h","i","\"",")","]">>

\* the first-phase outputs of the chats that run as tasks of one loop
TaskOutputs == {OutPlain, OutSameTwice}

\* their second-phase output
TaskFinalOutputs == {OutAnswer}

\* the outputs the model may give in the second phase
FinalOutputs == {OutAnswer, OutOneCall}

Questions == {"What is 2+2?", "Say hi"}


(***************************************************************************)
(* The tool servers the agent can be pointed at                            *)
(***************************************************************************)

RunServer   == "./run_server.py"
OtherServer == "./other_server.py"
MissingPath == "./missing.py"

Paths == {RunServer, OtherServer, MissingPath}

\* os.path.exists(abs_path)
PathExists(path) == path # MissingPath

\* init_result.serverInfo, as  name(vversion)
ServerName(path) ==
    IF path = RunServer THEN <<"Test Server", "1.0">> ELSE <<"Other Server", "1.0">>

\* the tools a server lists; both servers export echo_tool
ServerTools(path) ==
    IF path = RunServer
    THEN <<[name |-> echo_tool,    description |-> "Echoes the input text."],
           [name |-> reverse_tool, description |-> "Reverses the input text."]>>
    ELSE <<[name |-> echo_tool,    description |-> "Echo, other server."]>>

\* the resources a server lists, each with its uri as <<scheme, path>>
ServerResources(path) ==
    IF path = RunServer
    THEN <<>>
    ELSE <<[uri |-> <<"file", "/notes.txt">>, description |-> "Notes"]>>

ToolNames == {echo_tool, reverse_tool, nope_tool}

TextKey == <<"t","e","x","t">>

\* the argument mappings tried in a direct call on the manager
ArgDicts == {EmptyDict, DictSet(EmptyDict, TextKey, <<"h","i">>)}

\* what happens to one connection attempt and to one session request
ConnectOutcomes == {"ok", "spawn_fail", "handshake_fail"}
CallOutcomes    == {"ok", "is_error", "raise"}

(***************************************************************************)
(* Bounds                                                                  *)
(***************************************************************************)

MaxServers == 2
MaxObjects == 2
MaxChats   == 1
MaxCalls   == 2
MaxTasks   == 2

(***************************************************************************)
(* State                                                                   *)
(***************************************************************************)

VARIABLES
    server_path,        \* MCPClientManager.server_path
    clients,            \* MCPClientManager.clients: references into objects
    tool_map,           \* MCPClientManager.tool_map: tool name -> index (from 0)
    tool_info,          \* MCPClientManager.tool_info
    resource_map,       \* MCPClientManager.resource_map
    objects,            \* every MCPClient object constructed so far
    func_scheme_prompt, \* Agent.func_scheme_prompt
    resource_prompt,    \* Agent.resource_prompt
    system_prompt,      \* the system prompt installed in the prompt builder
    history,            \* the turns appended to the prompt's history
    phase,              \* where the program that owns the agent stands
    chat,               \* the chat coroutine: its position and its locals
    nchats,             \* the number of chat calls made so far
    op_result,          \* how the last manager operation ended
    parsed,             \* a text on its way through the parser of the agent
    parked,             \* the chat coroutine that is not the running one
    overlapped,         \* TRUE once two chats were in flight together
    backend,            \* AgentBackend: its fields and where run stands
    busy,               \* MainWindow: the input and the button are disabled
    signals             \* the state_changed signals queued to the UI thread

vars == <<server_path, clients, tool_map, tool_info, resource_map, objects,
          func_scheme_prompt, resource_prompt, system_prompt, history, phase,
          chat, nchats, op_result, parsed, parked, overlapped,
          backend, busy, signals>>

mgr_vars == <<server_path, clients, tool_map, tool_info, resource_map, objects>>

agent_vars == <<func_scheme_prompt, resource_prompt, system_prompt>>

chat_vars == <<history, chat, nchats>>

task_vars == <<parked, overlapped, backend, busy, signals>>

(***************************************************************************)
(* MCPClient                                                               *)
(***************************************************************************)

\* MCPClient.__init__; server is the path of the subprocess the client
\* has launched ("" while it has launched none), released the contexts its
\* exit_stack has exited so far, in the order they were exited
NewClient ==
    [session |-> FALSE, name |-> <<>>, exit_stack |-> <<>>, server |-> "",
     released |-> <<>>]

\* connect_to_server without the test of os.path.exists: the subprocess is
\* launched for any path and the handshake fails for a missing one
connect_to_server_unchecked(path, outcome) ==
    IF outcome = "spawn_fail"
    THEN [client |-> NewClient, raised |-> "OSError"]
    ELSE IF outcome = "handshake_fail" \/ ~PathExists(path)
    THEN [client |-> [NewClient EXCEPT !.exit_stack = <<"stdio", "session">>,
                                       !.session = TRUE,
                                       !.server = path],
          raised |-> "McpError"]
    ELSE [client |-> [NewClient EXCEPT !.exit_stack = <<"stdio", "session">>,
                                       !.session = TRUE,
                                       !.server = path,
                                       !.name = ServerName(path)],
          raised |-> "none"]

\* MCPClient.connect_to_server: the client after the call and what it raised
connect_to_server(path, outcome) ==
    IF ~PathExists(path)
    THEN [client |-> NewClient, raised |-> "FileNotFoundError"]
    ELSE IF outcome = "spawn_fail"
    THEN [client |-> NewClient, raised |-> "OSError"]
    ELSE IF outcome = "handshake_fail"
    THEN [client |-> [NewClient EXCEPT !.exit_stack = <<"stdio", "session">>,
                                       !.session = TRUE,
                                       !.server = path],
          raised |-> "McpError"]
    ELSE [client |-> [NewClient EXCEPT !.exit_stack = <<"stdio", "session">>,
                                       !.session = TRUE,
                                       !.server = path,
                                       !.name = ServerName(path)],
          raised |-> "none"]

\* is the session of the client still open on its transport
SessionOpen(client) ==
    \E i \in 1..Len(client.exit_stack) : client.exit_stack[i] = "session"

\* MCPClient.list_tools; sent tells whether a request went to the session
list_tools(client, fails) ==
    IF ~client.session
    THEN [raised |-> "AssertionError", tools |-> <<>>, sent |-> FALSE]
    ELSE IF ~SessionOpen(client)
    THEN [raised |-> "ClosedResourceError", tools |-> <<>>, sent |-> FALSE]
    ELSE IF fails THEN [raised |-> "McpError", tools |-> <<>>, sent |-> TRUE]
    ELSE [raised |-> "none", tools |-> ServerTools(client.server),
          sent |-> TRUE]

\* MCPClient.list_resources
list_resources(client, fails) ==
    IF ~client.session
    THEN [raised |-> "AssertionError", resources |-> <<>>, sent |-> FALSE]
    ELSE IF ~SessionOpen(client)
    THEN [raised |-> "ClosedResourceError", resources |-> <<>>, sent |-> FALSE]
    ELSE IF fails
    THEN [raised |-> "McpError", resources |-> <<>>, sent |-> TRUE]
    ELSE [raised |-> "none", resources |-> ServerResources(client.server),
          sent |-> TRUE]

NoAnswer(raised) ==
    [raised |-> raised, forwarded |-> <<>>, isError |-> FALSE, content |-> <<>>]

\* MCPClient.call_tool: the request put on the session and its answer
client_call_tool(id, name, args, outcome) ==
    LET client  == objects[id]
        request == [client |-> id, name |-> name, args |-> args]
    IN  IF ~client.session THEN NoAnswer("AssertionError")
        ELSE IF ~SessionOpen(client) THEN NoAnswer("ClosedResourceError")
        ELSE IF outcome = "raise"
        THEN [NoAnswer("McpError") EXCEPT !.forwarded = <<request>>]
        ELSE [raised    |-> "none",
              forwarded |-> <<request>>,
              isError   |-> outcome = "is_error",
              content   |-> IF outcome = "is_error"
                            THEN <<"Error executing tool">>
                            ELSE <<"hi">>]

\* AsyncExitStack.aclose: the callbacks are popped and run, last pushed
\* first, until the stack is empty, also when one of them raises
RECURSIVE aclose(_, _)
aclose(stack, released) ==
    IF stack = <<>> THEN released
    ELSE aclose(SubSeq(stack, 1, Len(stack) - 1),
                Append(released, stack[Len(stack)]))

\* cleanup with the contexts exited one by one without a guard: when the
\* exit of the session raises, the transport stays on the stack
cleanup_unguarded(client, raises) ==
    IF raises /\ SessionOpen(client)
    THEN [client |-> [client EXCEPT
                        !.exit_stack = SubSeq(@, 1, Len(@) - 1),
                        !.released = Append(@, client.exit_stack[
                                                  Len(client.exit_stack)])],
          raised |-> "CloseError"]
    ELSE [client |-> [client EXCEPT
                        !.exit_stack = <<>>,
                        !.released = aclose(client.exit_stack, client.released)],
          raised |-> "none"]

\* MCPClient.cleanup; raises tells whether the exit of the session raises,
\* which aclose raises again once every callback has run
cleanup(client, raises) ==
    [client |-> [client EXCEPT
                   !.exit_stack = <<>>,
                   !.released = aclose(client.exit_stack, client.released)],
     raised |-> IF raises /\ SessionOpen(client) THEN "CloseError" ELSE "none"]


(***************************************************************************)
(* utils.tool2dict, utils.resource2dict, utils.uri2path                    *)
(***************************************************************************)

tool2dict(tool) == [name |-> tool.name, description |-> tool.description]

resource2dict(rsrc) == [uri |-> rsrc.uri, description |-> rsrc.description]

uri2path(uri) == uri[2]

(***************************************************************************)
(* MCPClientManager                                                        *)
(***************************************************************************)

\* the loop of init_mcp_client over the registered paths
RECURSIVE init_loop(_, _, _, _)
init_loop(paths, objs, cls, outcomes) ==
    IF paths = <<>>
    THEN [objects |-> objs, clients |-> cls, raised |-> "none"]
    ELSE LET r     == connect_to_server(Head(paths), Head(outcomes))
             objs2 == Append(objs, r.client)
         IN  IF r.raised # "none"
             THEN [objects |-> objs2, clients |-> cls, raised |-> r.raised]
             ELSE init_loop(Tail(paths), objs2, Append(cls, Len(objs2)),
                            Tail(outcomes))

\* the loop of clean_mcp_client over the clients
RECURSIVE clean_loop(_, _, _)
clean_loop(cls, objs, raises) ==
    IF cls = <<>>
    THEN [objects |-> objs, raised |-> "none"]
    ELSE LET r     == cleanup(objs[Head(cls)], Head(raises))
             objs2 == [objs EXCEPT ![Head(cls)] = r.client]
         IN  IF r.raised # "none"
             THEN [objects |-> objs2, raised |-> r.raised]
             ELSE clean_loop(Tail(cls), objs2, Tail(raises))

\* tools_loop with self.tool_map.setdefault(tool.name, idx): the first
\* client exporting a name keeps it
RECURSIVE tools_loop_first_wins(_, _, _, _)
tools_loop_first_wins(tools, idx, server_name, acc) ==
    IF tools = <<>> THEN acc
    ELSE LET tool      == Head(tools)
             func_info == DictSet(DictGet(acc.tool_info, server_name, EmptyDict),
                                  tool.name, tool.description)
         IN  tools_loop_first_wins(Tail(tools), idx, server_name,
                [acc EXCEPT
                   !.func_scheme_list = Append(@, tool2dict(tool)),
                   !.tool_map  = DictSet(@, tool.name,
                                         DictGet(@, tool.name, idx)),
                   !.tool_info = DictSet(@, server_name, func_info)])

\* tools_loop with the descriptions collected in a list per tool name:
\* every pass adds the description once more
RECURSIVE tools_loop_collects(_, _, _, _)
tools_loop_collects(tools, idx, server_name, acc) ==
    IF tools = <<>> THEN acc
    ELSE LET tool      == Head(tools)
             old_info  == DictGet(acc.tool_info, server_name, EmptyDict)
             func_info == DictSet(old_info, tool.name,
                                  Append(DictGet(old_info, tool.name, <<>>),
                                         tool.description))
         IN  tools_loop_collects(Tail(tools), idx, server_name,
                [acc EXCEPT
                   !.func_scheme_list = Append(@, tool2dict(tool)),
                   !.tool_map  = DictSet(@, tool.name, idx),
                   !.tool_info = DictSet(@, server_name, func_info)])

\* the inner loop of get_func_scheme over the tools of the client at idx
RECURSIVE tools_loop(_, _, _, _)
tools_loop(tools, idx, server_name, acc) ==
    IF tools = <<>> THEN acc
    ELSE LET tool      == Head(tools)
             func_info == DictSet(DictGet(acc.tool_info, server_name, EmptyDict),
                                  tool.name, tool.description)
         IN  tools_loop(Tail(tools), idx, server_name,
                [acc EXCEPT
                   !.func_scheme_list = Append(@, tool2dict(tool)),
                   !.tool_map  = DictSet(@, tool.name, idx),
                   !.tool_info = DictSet(@, server_name, func_info)])

\* the outer loop of get_func_scheme over enumerate(self.clients)
RECURSIVE scheme_loop(_, _, _, _, _)
scheme_loop(idx, cls, objs, fails, acc) ==
    IF idx >= Len(cls) THEN acc
    ELSE LET client == objs[cls[idx + 1]]
             r      == list_tools(client, fails[idx + 1])
         IN  IF r.raised # "none"
             THEN [acc EXCEPT !.raised = r.raised]
             ELSE scheme_loop(idx + 1, cls, objs, fails,
                              tools_loop(r.tools, idx, client.name, acc))

\* get_func_scheme: the returned list and the maps it leaves behind
get_func_scheme(cls, objs, tm, ti, fails) ==
    scheme_loop(0, cls, objs, fails,
                [func_scheme_list |-> <<>>, tool_map |-> tm, tool_info |-> ti,
                 raised |-> "none"])

\* the inner loop of get_resource_list over the resources of the client
RECURSIVE rsrc_loop(_, _, _)
rsrc_loop(resources, idx, acc) ==
    IF resources = <<>> THEN acc
    ELSE LET rsrc == Head(resources)
         IN  rsrc_loop(Tail(resources), idx,
                [acc EXCEPT
                   !.resource_list = Append(@, resource2dict(rsrc)),
                   !.resource_map  = DictSet(@, uri2path(rsrc.uri), idx)])

\* the outer loop of get_resource_list over enumerate(self.clients)
RECURSIVE resource_loop(_, _, _, _, _)
resource_loop(idx, cls, objs, fails, acc) ==
    IF idx >= Len(cls) THEN acc
    ELSE LET r == list_resources(objs[cls[idx + 1]], fails[idx + 1])
         IN  IF r.raised # "none"
             THEN [acc EXCEPT !.raised = r.raised]
             ELSE resource_loop(idx + 1, cls, objs, fails,
                                rsrc_loop(r.resources, idx, acc))

\* get_resource_list: the returned list and the map it leaves behind
get_resource_list(cls, objs, rm, fails) ==
    resource_loop(0, cls, objs, fails,
                  [resource_list |-> <<>>, resource_map |-> rm, raised |-> "none"])

\* call_tool with self.tool_map.get(name, 0): an absent name falls through
\* to the first client
manager_call_tool_default0(name, param, outcome) ==
    LET idx == DictGet(tool_map, name, 0)
    IN  IF idx < 0
        THEN NoAnswer("MCPException")
        ELSE IF idx >= Len(clients)
        THEN NoAnswer("IndexError")
        ELSE client_call_tool(clients[idx + 1], name, param, outcome)

\* MCPClientManager.call_tool
manager_call_tool(name, param, outcome) ==
    LET idx == DictGet(tool_map, name, -1)
    IN  IF idx < 0
        THEN NoAnswer("MCPException")
        ELSE client_call_tool(clients[idx + 1], name, param, outcome)

\* client is the MCPClient object an operation was called on directly (0
\* when it was called on the manager), again tells that the same listing
\* had returned just before this one
NoResult ==
    [op |-> "none", name |-> <<>>, param |-> EmptyDict, raised |-> "none",
     forwarded |-> <<>>, value |-> <<>>, client |-> 0, again |-> FALSE]

\* register_mcp that connects at once: the client is made and held
RegisterMcpConnects(path) ==
    /\ Len(server_path) < MaxServers
    /\ Len(objects) < MaxObjects
    /\ server_path' = Append(server_path, path)
    /\ LET r == connect_to_server(path, "ok")
       IN  /\ objects' = Append(objects, r.client)
           /\ clients' = IF r.raised = "none"
                         THEN Append(clients, Len(objects) + 1) ELSE clients
    /\ op_result' = [NoResult EXCEPT !.op = "register_mcp"]
    /\ UNCHANGED <<parsed, task_vars, tool_map, tool_info, resource_map,
                   agent_vars, chat_vars, phase>>

\* register_mcp(server_path)
RegisterMcp(path) ==
    /\ Len(server_path) < MaxServers
    /\ server_path' = Append(server_path, path)
    /\ op_result' = [NoResult EXCEPT !.op = "register_mcp"]
    /\ UNCHANGED <<parsed, task_vars,
                   clients, tool_map, tool_info, resource_map, objects,
                   agent_vars, chat_vars, phase>>

\* init_mcp_client() that starts from an empty list of clients
InitMcpClientResets(outcomes) ==
    /\ Len(objects) + Len(server_path) <= MaxObjects
    /\ LET r == init_loop(server_path, objects, <<>>, outcomes)
       IN  /\ objects' = r.objects
           /\ clients' = r.clients
           /\ op_result' = [NoResult EXCEPT !.op = "init_mcp_client",
                                            !.raised = r.raised]
    /\ UNCHANGED <<parsed, task_vars,
                   server_path, tool_map, tool_info, resource_map,
                   agent_vars, chat_vars, phase>>

\* init_mcp_client()
InitMcpClient(outcomes) ==
    /\ Len(objects) + Len(server_path) <= MaxObjects
    /\ LET r == init_loop(server_path, objects, clients, outcomes)
       IN  /\ objects' = r.objects
           /\ clients' = r.clients
           /\ op_result' = [NoResult EXCEPT !.op = "init_mcp_client",
                                            !.raised = r.raised]
    /\ UNCHANGED <<parsed, task_vars,
                   server_path, tool_map, tool_info, resource_map,
                   agent_vars, chat_vars, phase>>

\* get_func_scheme()
GetFuncScheme(fails) ==
    /\ LET r == get_func_scheme(clients, objects, tool_map, tool_info, fails)
       IN  /\ tool_map' = r.tool_map
           /\ tool_info' = r.tool_info
           /\ op_result' = [NoResult EXCEPT
                               !.op = "get_func_scheme",
                               !.again = (op_result.op = "get_func_scheme"
                                          /\ op_result.raised = "none"),
                               !.raised = r.raised,
                               !.value = IF r.raised = "none"
                                         THEN r.func_scheme_list ELSE <<>>]
    /\ UNCHANGED <<parsed, task_vars,
                   server_path, clients, resource_map, objects,
                   agent_vars, chat_vars, phase>>

\* get_resource_list()
GetResourceList(fails) ==
    /\ LET r == get_resource_list(clients, objects, resource_map, fails)
       IN  /\ resource_map' = r.resource_map
           /\ op_result' = [NoResult EXCEPT
                               !.op = "get_resource_list",
                               !.again = (op_result.op = "get_resource_list"
                                          /\ op_result.raised = "none"),
                               !.raised = r.raised,
                               !.value = IF r.raised = "none"
                                         THEN r.resource_list ELSE <<>>]
    /\ UNCHANGED <<parsed, task_vars,
                   server_path, clients, tool_map, tool_info, objects,
                   agent_vars, chat_vars, phase>>

\* call_tool(name, param), called on the manager directly
CallTool(name, param, outcome) ==
    /\ LET r == manager_call_tool(name, param, outcome)
       IN  op_result' = [NoResult EXCEPT
                           !.op = "call_tool", !.name = name, !.param = param,
                           !.raised = r.raised,
                           !.forwarded = r.forwarded,
                           !.value = IF r.raised = "none"
                                     THEN <<r.isError, r.content>> ELSE <<>>]
    /\ UNCHANGED <<parsed, task_vars, mgr_vars, agent_vars, chat_vars, phase>>

\* clean_mcp_client() with the list of clients and the name map emptied
CleanMcpClientClears(raises) ==
    /\ LET r == clean_loop(clients, objects, raises)
       IN  /\ objects' = r.objects
           /\ op_result' = [NoResult EXCEPT !.op = "clean_mcp_client",
                                            !.raised = r.raised]
    /\ clients' = <<>>
    /\ tool_map' = EmptyDict
    /\ UNCHANGED <<parsed, task_vars,
                   server_path, tool_info, resource_map,
                   agent_vars, chat_vars, phase>>

\* clean_mcp_client()
CleanMcpClient(raises) ==
    /\ LET r == clean_loop(clients, objects, raises)
       IN  /\ objects' = r.objects
           /\ op_result' = [NoResult EXCEPT !.op = "clean_mcp_client",
                                            !.raised = r.raised]
    /\ UNCHANGED <<parsed, task_vars,
                   server_path, clients, tool_map, tool_info, resource_map,
                   agent_vars, chat_vars, phase>>


(***************************************************************************)
(* MCPClient used on its own, as by test() of client.py                    *)
(***************************************************************************)

\* the request a listing puts on the session
ListRequest(id, method) ==
    [client |-> id, name |-> <<method>>, args |-> EmptyDict]

\* client = MCPClient()
ClientNew ==
    /\ Len(objects) < MaxObjects
    /\ objects' = Append(objects, NewClient)
    /\ op_result' = [NoResult EXCEPT !.op = "MCPClient",
                                     !.client = Len(objects) + 1]
    /\ UNCHANGED <<parsed, task_vars,
                   server_path, clients, tool_map, tool_info, resource_map,
                   agent_vars, chat_vars, phase>>

\* client.connect_to_server(path), called once on a client
ClientConnect(id, path, outcome) ==
    /\ objects[id] = NewClient
    /\ LET r == connect_to_server(path, outcome)
       IN  /\ objects' = [objects EXCEPT ![id] = r.client]
           /\ op_result' = [NoResult EXCEPT !.op = "connect_to_server",
                                            !.client = id,
                                            !.value = <<path>>,
                                            !.raised = r.raised]
    /\ UNCHANGED <<parsed, task_vars,
                   server_path, clients, tool_map, tool_info, resource_map,
                   agent_vars, chat_vars, phase>>

\* client.list_tools()
ClientListTools(id, fails) ==
    /\ LET r == list_tools(objects[id], fails)
       IN  op_result' = [NoResult EXCEPT
                           !.op = "list_tools",
                           !.client = id,
                           !.raised = r.raised,
                           !.forwarded = IF r.sent
                                         THEN <<ListRequest(id, "tools/list")>>
                                         ELSE <<>>,
                           !.value = r.tools]
    /\ UNCHANGED <<parsed, task_vars, mgr_vars, agent_vars, chat_vars, phase>>

\* client.list_resources()
ClientListResources(id, fails) ==
    /\ LET r == list_resources(objects[id], fails)
       IN  op_result' = [NoResult EXCEPT
                           !.op = "list_resources",
                           !.client = id,
                           !.raised = r.raised,
                           !.forwarded = IF r.sent
                                         THEN <<ListRequest(id,
                                                            "resources/list")>>
                                         ELSE <<>>,
                           !.value = r.resources]
    /\ UNCHANGED <<parsed, task_vars, mgr_vars, agent_vars, chat_vars, phase>>

\* client.call_tool(name, args)
ClientCallTool(id, name, args, outcome) ==
    /\ LET r == client_call_tool(id, name, args, outcome)
       IN  op_result' = [NoResult EXCEPT
                           !.op = "call_tool", !.client = id,
                           !.name = name, !.param = args,
                           !.raised = r.raised,
                           !.forwarded = r.forwarded,
                           !.value = IF r.raised = "none"
                                     THEN <<r.isError, r.content>> ELSE <<>>]
    /\ UNCHANGED <<parsed, task_vars, mgr_vars, agent_vars, chat_vars, phase>>

\* client.cleanup()
ClientCleanup(id, raises) ==
    /\ LET r == cleanup(objects[id], raises)
       IN  /\ objects' = [objects EXCEPT ![id] = r.client]
           /\ op_result' = [NoResult EXCEPT !.op = "cleanup", !.client = id,
                                            !.raised = r.raised]
    /\ UNCHANGED <<parsed, task_vars,
                   server_path, clients, tool_map, tool_info, resource_map,
                   agent_vars, chat_vars, phase>>

(***************************************************************************)
(* The prompt builder (BasePrompt) and the model backend (BaseModel)       *)
(***************************************************************************)

\* SYSTEM_PROMPT
SYSTEM_PROMPT == "You are a helpful assistant"

\* TOOL_CALL_PROMPT.format(function_scheme=...)
TOOL_CALL_PROMPT(function_scheme) ==
    [template |-> "TOOL_CALL_PROMPT", function_scheme |-> function_scheme]

get_system_prompt(text) == [role |-> "system", content |-> text]

get_user_prompt(question, tool_scheme) ==
    [role |-> "user", content |-> question, tool_scheme |-> tool_scheme]

get_assistant_prompt(answer) == [role |-> "assistant", content |-> answer]

get_tool_result_prompt(result) == [role |-> "tool", content |-> result]

append_history(h, message) == Append(h, message)

\* get_generation_prompt(tool_enabled, last): what the prompt is built from
get_generation_prompt(tool_enabled, last) ==
    [tool_enabled |-> tool_enabled, last |-> last]

\* the default of the parameter last of get_generation_prompt
DefaultLast == 50

\* the window of the second generation
FinalLast == 3

\* LlamaCPP.generate: the first completion, stripped
generate(output) == strip(output, Whitespace)

\* json.dumps(value): the text that encodes the value
json_dumps(value) == [json |-> value]

\* response.strip().lstrip(...): the clean-up of the first generation
normalize(response) == lstrip(strip(response, Whitespace), StrayChars)

AgentResponse(type, data) == [type |-> type, data |-> data]

(***************************************************************************)
(* Agent: registration and lifecycle, as run_agent.py drives them          *)
(***************************************************************************)

\* Agent.register_mcp, before the context of the agent is entered
AgentRegisterMcp(path) ==
    /\ phase = "new"
    /\ RegisterMcp(path)

\* async with agent: __aenter__ runs init_agent; when it raises the block
\* is not entered and __aexit__ is not called
InitAgent(outcomes, tool_fails, rsrc_fails) ==
    /\ phase = "new"
    /\ LET r1 == init_loop(server_path, objects, clients, outcomes)
           r2 == get_func_scheme(r1.clients, r1.objects, tool_map, tool_info,
                                 tool_fails)
           r3 == get_resource_list(r1.clients, r1.objects, resource_map,
                                   rsrc_fails)
           raised == IF r1.raised # "none" THEN r1.raised
                     ELSE IF r2.raised # "none" THEN r2.raised
                     ELSE r3.raised
       IN  /\ objects' = r1.objects
           /\ clients' = r1.clients
           /\ tool_map' = IF r1.raised = "none" THEN r2.tool_map ELSE tool_map
           /\ tool_info' = IF r1.raised = "none" THEN r2.tool_info ELSE tool_info
           /\ resource_map' = IF r1.raised = "none" /\ r2.raised = "none"
                              THEN r3.resource_map ELSE resource_map
           /\ IF raised = "none"
              THEN /\ func_scheme_prompt' = json_dumps(r2.func_scheme_list)
                   /\ resource_prompt' = json_dumps(r3.resource_list)
                   /\ system_prompt' = get_system_prompt(SYSTEM_PROMPT)
                   /\ phase' = "ready"
              ELSE /\ UNCHANGED agent_vars
                   /\ phase' = "init_failed"
           /\ op_result' = [NoResult EXCEPT !.op = "init_agent",
                                            !.raised = raised]
    /\ UNCHANGED <<parsed, task_vars, server_path, chat_vars>>

\* the block of async with is left: __aexit__ runs clean_agent
CleanAgent(raises) ==
    /\ phase = "ready"
    /\ chat.pc \in {"idle", "done", "failed"}
    /\ phase' = "closed"
    /\ LET r == clean_loop(clients, objects, raises)
       IN  /\ objects' = r.objects
           /\ op_result' = [NoResult EXCEPT !.op = "clean_agent",
                                            !.raised = r.raised]
    /\ UNCHANGED <<parsed, task_vars,
                   server_path, clients, tool_map, tool_info, resource_map,
                   agent_vars, chat_vars>>

(***************************************************************************)
(* Agent.chat, one action per step between two calls that leave the agent  *)
(***************************************************************************)

IdleChat ==
    [pc |-> "idle", question |-> "", response |-> <<>>, response_list |-> <<>>,
     calls |-> <<>>, k |-> 0, result_list |-> <<>>, raised |-> "none",
     returned |-> <<>>,   \* <<the list chat returned>>, <<>> while none
     start |-> 0,         \* the length of the history when chat was called
     output |-> <<>>,     \* the raw text of the first generation
     generated |-> <<>>,  \* the prompts generate was called with
     invoked |-> <<>>,    \* the requests put on a session
     answers |-> <<>>,    \* what each awaited request ended with
     handler |-> "none",  \* where the _handle_message that called it stands
     emitted |-> <<>>]    \* the signals that _handle_message has emitted

\* chat is called: the user message goes to the history
ChatBegin(question) ==
    /\ phase = "ready"
    /\ chat.pc \in {"idle", "done", "failed"}
    /\ nchats < MaxChats
    /\ nchats' = nchats + 1
    /\ history' = append_history(history,
                     get_user_prompt(question,
                                     TOOL_CALL_PROMPT(func_scheme_prompt)))
    /\ chat' = [IdleChat EXCEPT !.pc = "gen1", !.question = question,
                                !.start = Len(history)]
    /\ op_result' = [NoResult EXCEPT !.op = "chat"]
    /\ UNCHANGED <<parsed, task_vars, mgr_vars, agent_vars, phase>>

\* lines 304-311 and the parse of lines 316 and 224-229 for each output of
\* the model, computed once: the normalized response, whether it asks for
\* tools, and the calls get_func_props yields from it
FirstPhase ==
    [output \in ModelOutputs \cup TaskOutputs |->
        LET response == normalize(generate(output))
        IN  [response      |-> response,
             tool_required |-> is_tool_required(response),
             func_props    |-> IF is_tool_required(response)
                               THEN get_func_props(response) ELSE <<>>]]

\* Generate1 with the text as the model gave it appended to the history
Generate1RawHistory(output) ==
    /\ chat.pc = "gen1"
    /\ LET prompt == get_generation_prompt(TRUE, DefaultLast)
           c      == [chat EXCEPT !.generated = Append(@, prompt),
                                  !.output = output,
                                  !.response = FirstPhase[output].response]
       IN  IF FirstPhase[output].tool_required
           THEN /\ chat' = [c EXCEPT
                              !.pc = "tools",
                              !.response_list =
                                  Append(@, AgentResponse("tool-calling",
                                                          c.response)),
                              !.calls = FirstPhase[output].func_props]
                /\ history' = append_history(history,
                                             get_assistant_prompt(output))
           ELSE /\ chat' = [c EXCEPT !.pc = "final"]
                /\ history' = history
    /\ UNCHANGED <<parsed, task_vars,
                   mgr_vars, agent_vars, phase, nchats, op_result>>

\* Generate1 without the append of the tool-call message to the history
Generate1NoHistory(output) ==
    /\ chat.pc = "gen1"
    /\ LET prompt == get_generation_prompt(TRUE, DefaultLast)
           c      == [chat EXCEPT !.generated = Append(@, prompt),
                                  !.output = output,
                                  !.response = FirstPhase[output].response]
       IN  IF FirstPhase[output].tool_required
           THEN chat' = [c EXCEPT
                           !.pc = "tools",
                           !.response_list =
                               Append(@, AgentResponse("tool-calling",
                                                       c.response)),
                           !.calls = FirstPhase[output].func_props]
           ELSE chat' = [c EXCEPT !.pc = "final"]
    /\ UNCHANGED <<parsed, task_vars,
                   mgr_vars, agent_vars, phase, history, nchats, op_result>>

\* the first generation returns
Generate1(output) ==
    /\ chat.pc = "gen1"
    /\ LET prompt == get_generation_prompt(TRUE, DefaultLast)
           c      == [chat EXCEPT !.generated = Append(@, prompt),
                                  !.output = output,
                                  !.response = FirstPhase[output].response]
       IN  IF FirstPhase[output].tool_required
           THEN /\ chat' = [c EXCEPT
                              !.pc = "tools",
                              !.response_list =
                                  Append(@, AgentResponse("tool-calling",
                                                          c.response)),
                              !.calls = FirstPhase[output].func_props]
                /\ history' = append_history(history,
                                             get_assistant_prompt(c.response))
           ELSE /\ chat' = [c EXCEPT !.pc = "final"]
                /\ history' = history
    /\ UNCHANGED <<parsed, task_vars,
                   mgr_vars, agent_vars, phase, nchats, op_result>>

\* the first generation raises
Generate1Fails ==
    /\ chat.pc = "gen1"
    /\ chat' = [chat EXCEPT
                  !.pc = "failed", !.raised = "GenerationError",
                  !.generated = Append(@, get_generation_prompt(TRUE,
                                                                DefaultLast))]
    /\ UNCHANGED <<parsed, task_vars,
                   mgr_vars, agent_vars, phase, history, nchats, op_result>>

\* SendTool with an unknown name skipped instead of raised
SendToolSkipsUnknown ==
    /\ chat.pc = "tools"
    /\ chat.k < Len(chat.calls)
    /\ LET call == chat.calls[chat.k + 1]
           r    == manager_call_tool(call.name, call.param, "ok")
       IN  chat' = IF r.forwarded = <<>>
                   THEN [chat EXCEPT
                           !.k = @ + 1,
                           !.result_list = Append(@, [name |-> call.name,
                                                      output |-> <<>>])]
                   ELSE [chat EXCEPT !.pc = "await_tool",
                                     !.invoked = @ \o r.forwarded]
    /\ UNCHANGED <<parsed, task_vars,
                   mgr_vars, agent_vars, phase, history, nchats, op_result>>

\* SendTool with the remaining calls gathered: every one of them is sent
\* before any is awaited
SendToolAll ==
    /\ chat.pc = "tools"
    /\ chat.k < Len(chat.calls)
    /\ LET n    == Len(chat.calls) - chat.k
           rest == [i \in 1..n |->
                      manager_call_tool(chat.calls[chat.k + i].name,
                                        chat.calls[chat.k + i].param, "ok")]
       IN  chat' = IF \E i \in 1..n : rest[i].forwarded = <<>>
                   THEN [chat EXCEPT !.pc = "failed",
                                     !.raised = "MCPException"]
                   ELSE [chat EXCEPT
                           !.pc = "await_tool",
                           !.invoked = @ \o [i \in 1..n |->
                                               rest[i].forwarded[1]]]
    /\ UNCHANGED <<parsed, task_vars,
                   mgr_vars, agent_vars, phase, history, nchats, op_result>>

\* get_result_tool: the loop takes the next parsed call and sends it, or
\* raises before anything is sent
SendTool ==
    /\ chat.pc = "tools"
    /\ chat.k < Len(chat.calls)
    /\ LET call == chat.calls[chat.k + 1]
           r    == manager_call_tool(call.name, call.param, "ok")
       IN  chat' = IF r.forwarded = <<>>
                   THEN [chat EXCEPT !.pc = "failed", !.raised = r.raised]
                   ELSE [chat EXCEPT !.pc = "await_tool",
                                     !.invoked = @ \o r.forwarded]
    /\ UNCHANGED <<parsed, task_vars,
                   mgr_vars, agent_vars, phase, history, nchats, op_result>>

\* ToolReturn with one retry: a request that raised is sent once more
ToolReturnRetries(outcome) ==
    /\ chat.pc = "await_tool"
    /\ LET sent == chat.invoked[Len(chat.invoked)]
           r    == client_call_tool(sent.client, sent.name, sent.args, outcome)
           c    == [chat EXCEPT
                      !.answers = Append(@, [raised  |-> r.raised,
                                             isError |-> r.isError,
                                             content |-> r.content])]
       IN  chat' = IF r.raised # "none" /\ Len(chat.invoked) = chat.k + 1
                   THEN [c EXCEPT !.invoked = Append(@, sent)]
                   ELSE IF r.raised # "none"
                   THEN [c EXCEPT !.pc = "failed", !.raised = r.raised]
                   ELSE [c EXCEPT
                           !.pc = "tools",
                           !.k = @ + 1,
                           !.result_list =
                               Append(@, [name |-> sent.name,
                                          output |-> r.content])]
    /\ UNCHANGED <<parsed, task_vars,
                   mgr_vars, agent_vars, phase, history, nchats, op_result>>

\* ToolReturn with is_err checked: an answer flagged as an error is raised
ToolReturnRaisesOnError(outcome) ==
    /\ chat.pc = "await_tool"
    /\ LET sent == chat.invoked[Len(chat.invoked)]
           r    == client_call_tool(sent.client, sent.name, sent.args, outcome)
           c    == [chat EXCEPT
                      !.answers = Append(@, [raised  |-> r.raised,
                                             isError |-> r.isError,
                                             content |-> r.content])]
       IN  chat' = IF r.raised # "none"
                   THEN [c EXCEPT !.pc = "failed", !.raised = r.raised]
                   ELSE IF r.isError
                   THEN [c EXCEPT !.pc = "failed",
                                  !.raised = "ToolExecutionError"]
                   ELSE [c EXCEPT
                           !.pc = "tools",
                           !.k = @ + 1,
                           !.result_list =
                               Append(@, [name |-> sent.name,
                                          output |-> r.content])]
    /\ UNCHANGED <<parsed, task_vars,
                   mgr_vars, agent_vars, phase, history, nchats, op_result>>

\* ToolReturn with the call wrapped in try/except: an invocation that raises
\* contributes an empty output and the loop goes on
ToolReturnSwallows(outcome) ==
    /\ chat.pc = "await_tool"
    /\ LET sent == chat.invoked[Len(chat.invoked)]
           r    == client_call_tool(sent.client, sent.name, sent.args, outcome)
       IN  chat' = [chat EXCEPT
                      !.answers = Append(@, [raised  |-> r.raised,
                                             isError |-> r.isError,
                                             content |-> r.content]),
                      !.pc = "tools",
                      !.k = @ + 1,
                      !.result_list = Append(@, [name |-> sent.name,
                                                 output |-> r.content])]
    /\ UNCHANGED <<parsed, task_vars,
                   mgr_vars, agent_vars, phase, history, nchats, op_result>>

\* ToolReturn with the outputs kept under the name of the tool: a second
\* call of a tool adds its outputs to the entry of the first
ToolReturnMerges(outcome) ==
    /\ chat.pc = "await_tool"
    /\ LET sent == chat.invoked[Len(chat.invoked)]
           r    == client_call_tool(sent.client, sent.name, sent.args, outcome)
           c    == [chat EXCEPT
                      !.answers = Append(@, [raised  |-> r.raised,
                                             isError |-> r.isError,
                                             content |-> r.content])]
           old  == chat.result_list
           new  == IF \E j \in 1..Len(old) : old[j].name = sent.name
                   THEN [j \in 1..Len(old) |->
                           IF old[j].name = sent.name
                           THEN [name   |-> sent.name,
                                 output |-> old[j].output \o r.content]
                           ELSE old[j]]
                   ELSE Append(old, [name |-> sent.name, output |-> r.content])
       IN  chat' = IF r.raised # "none"
                   THEN [c EXCEPT !.pc = "failed", !.raised = r.raised]
                   ELSE [c EXCEPT !.pc = "tools", !.k = @ + 1,
                                  !.result_list = new]
    /\ UNCHANGED <<parsed, task_vars,
                   mgr_vars, agent_vars, phase, history, nchats, op_result>>

\* the session answers the request in flight, or the await raises
ToolReturn(outcome) ==
    /\ chat.pc = "await_tool"
    /\ LET sent == chat.invoked[Len(chat.invoked)]
           r    == client_call_tool(sent.client, sent.name, sent.args, outcome)
           c    == [chat EXCEPT
                      !.answers = Append(@, [raised  |-> r.raised,
                                             isError |-> r.isError,
                                             content |-> r.content])]
       IN  chat' = IF r.raised # "none"
                   THEN [c EXCEPT !.pc = "failed", !.raised = r.raised]
                   ELSE [c EXCEPT
                           !.pc = "tools",
                           !.k = @ + 1,
                           !.result_list =
                               Append(@, [name |-> sent.name,
                                          output |-> r.content])]
    /\ UNCHANGED <<parsed, task_vars,
                   mgr_vars, agent_vars, phase, history, nchats, op_result>>

\* ToolsDone with a timeout on the invocation: the loop gives the pending
\* request up and goes on to the second generation
ToolsDoneTimesOut ==
    /\ \/ chat.pc = "tools" /\ chat.k = Len(chat.calls)
       \/ chat.pc = "await_tool"
    /\ LET result == json_dumps(chat.result_list)
       IN  /\ chat' = [chat EXCEPT
                         !.pc = "gen2",
                         !.response_list =
                             Append(@, AgentResponse("tool-result", result))]
           /\ history' = append_history(history, get_tool_result_prompt(result))
    /\ UNCHANGED <<parsed, task_vars,
                   mgr_vars, agent_vars, phase, nchats, op_result>>

\* ToolsDone without the append of the tool-result message to the history
ToolsDoneNoHistory ==
    /\ chat.pc = "tools"
    /\ chat.k = Len(chat.calls)
    /\ chat' = [chat EXCEPT
                  !.pc = "gen2",
                  !.response_list =
                      Append(@, AgentResponse("tool-result",
                                              json_dumps(chat.result_list)))]
    /\ UNCHANGED <<parsed, task_vars,
                   mgr_vars, agent_vars, phase, history, nchats, op_result>>

\* the loop is over: the results are serialised and go to the history
ToolsDone ==
    /\ chat.pc = "tools"
    /\ chat.k = Len(chat.calls)
    /\ LET result == json_dumps(chat.result_list)
       IN  /\ chat' = [chat EXCEPT
                         !.pc = "gen2",
                         !.response_list =
                             Append(@, AgentResponse("tool-result", result))]
           /\ history' = append_history(history, get_tool_result_prompt(result))
    /\ UNCHANGED <<parsed, task_vars,
                   mgr_vars, agent_vars, phase, nchats, op_result>>

\* Generate2 with the default window of get_generation_prompt
Generate2FullWindow(output) ==
    /\ chat.pc = "gen2"
    /\ chat' = [chat EXCEPT
                  !.pc = "final",
                  !.response = generate(output),
                  !.generated = Append(@, get_generation_prompt(FALSE,
                                                                DefaultLast))]
    /\ UNCHANGED <<parsed, task_vars,
                   mgr_vars, agent_vars, phase, history, nchats, op_result>>

\* the second generation returns
Generate2(output) ==
    /\ chat.pc = "gen2"
    /\ chat' = [chat EXCEPT
                  !.pc = "final",
                  !.response = generate(output),
                  !.generated = Append(@, get_generation_prompt(FALSE,
                                                                FinalLast))]
    /\ UNCHANGED <<parsed, task_vars,
                   mgr_vars, agent_vars, phase, history, nchats, op_result>>

\* Generate2Fails with the error swallowed: chat returns what it has built
Generate2FailsReturns ==
    /\ chat.pc = "gen2"
    /\ chat' = [chat EXCEPT
                  !.pc = "done", !.raised = "GenerationError",
                  !.returned = <<chat.response_list>>,
                  !.generated = Append(@, get_generation_prompt(FALSE,
                                                                FinalLast))]
    /\ UNCHANGED <<parsed, task_vars,
                   mgr_vars, agent_vars, phase, history, nchats, op_result>>

\* the second generation raises
Generate2Fails ==
    /\ chat.pc = "gen2"
    /\ chat' = [chat EXCEPT
                  !.pc = "failed", !.raised = "GenerationError",
                  !.generated = Append(@, get_generation_prompt(FALSE,
                                                                FinalLast))]
    /\ UNCHANGED <<parsed, task_vars,
                   mgr_vars, agent_vars, phase, history, nchats, op_result>>

\* ChatReturn without the append of the final answer to the history
ChatReturnNoHistory ==
    /\ chat.pc = "final"
    /\ LET response_list ==
               Append(chat.response_list, AgentResponse("text", chat.response))
       IN  chat' = [chat EXCEPT !.pc = "done",
                                !.response_list = response_list,
                                !.returned = <<response_list>>]
    /\ UNCHANGED <<parsed, task_vars,
                   mgr_vars, agent_vars, phase, history, nchats, op_result>>

\* the final answer is appended and chat returns response_list
ChatReturn ==
    /\ chat.pc = "final"
    /\ LET response_list ==
               Append(chat.response_list, AgentResponse("text", chat.response))
       IN  chat' = [chat EXCEPT !.pc = "done",
                                !.response_list = response_list,
                                !.returned = <<response_list>>]
    /\ history' = append_history(history, get_assistant_prompt(chat.response))
    /\ UNCHANGED <<parsed, task_vars,
                   mgr_vars, agent_vars, phase, nchats, op_result>>

(***************************************************************************)
(* Several tasks on one event loop, as backend.py schedules them: every    *)
(* message of the user becomes a task that awaits agent.chat, the shutdown *)
(* is a task that awaits __aexit__.  The loop runs one task until it       *)
(* awaits something that is not ready; chat is the coroutine the loop is   *)
(* running or ran last, parked the one that is not running.  At most two   *)
(* chats are in flight together.                                           *)
(***************************************************************************)

StartedPaths == <<RunServer>>

\* the agent after _startup: run_server.py registered, the context entered
Started ==
    LET ok == [i \in 1..Len(StartedPaths) |-> "ok"]
        no == [i \in 1..Len(StartedPaths) |-> FALSE]
        r1 == init_loop(StartedPaths, <<>>, <<>>, ok)
        r2 == get_func_scheme(r1.clients, r1.objects, EmptyDict, EmptyDict, no)
        r3 == get_resource_list(r1.clients, r1.objects, EmptyDict, no)
    IN  [objects            |-> r1.objects,
         clients            |-> r1.clients,
         tool_map           |-> r2.tool_map,
         tool_info          |-> r2.tool_info,
         resource_map       |-> r3.resource_map,
         func_scheme_prompt |-> json_dumps(r2.func_scheme_list),
         resource_prompt    |-> json_dumps(r3.resource_list)]

\* a chat that has been called and has neither returned nor raised
InFlight(c) == c.pc \notin {"idle", "done", "failed"}

\* TaskChatBegin without the append of the user message to the history
TaskChatBeginNoTurn(question) ==
    /\ phase = "ready"
    /\ nchats < MaxTasks
    /\ \/ /\ ~InFlight(chat)
          /\ parked' = parked
       \/ /\ chat.pc = "await_tool"
          /\ ~InFlight(parked)
          /\ parked' = chat
    /\ nchats' = nchats + 1
    /\ chat' = [IdleChat EXCEPT !.pc = "gen1", !.question = question,
                                !.start = Len(history)]
    /\ overlapped' = (overlapped \/ InFlight(chat) \/ InFlight(parked))
    /\ op_result' = [NoResult EXCEPT !.op = "chat"]
    /\ UNCHANGED <<mgr_vars, agent_vars, phase, history, parsed,
                   backend, busy, signals>>

\* _handle_message starts to run and calls chat: the running coroutine is
\* over or suspended; the user message goes to the history
TaskChatBegin(question) ==
    /\ phase = "ready"
    /\ nchats < MaxTasks
    /\ \/ /\ ~InFlight(chat)
          /\ parked' = parked
       \/ /\ chat.pc = "await_tool"
          /\ ~InFlight(parked)
          /\ parked' = chat
    /\ nchats' = nchats + 1
    /\ history' = append_history(history,
                     get_user_prompt(question,
                                     TOOL_CALL_PROMPT(func_scheme_prompt)))
    /\ chat' = [IdleChat EXCEPT !.pc = "gen1", !.question = question,
                                !.start = Len(history)]
    /\ overlapped' = (overlapped \/ InFlight(chat) \/ InFlight(parked))
    /\ op_result' = [NoResult EXCEPT !.op = "chat"]
    /\ UNCHANGED <<mgr_vars, agent_vars, phase, parsed,
                   backend, busy, signals>>

\* SwitchTask with a switch at any step of chat
SwitchTaskAnywhere ==
    /\ parked.pc \notin {"idle", "done", "failed"}
    /\ chat' = parked
    /\ parked' = chat
    /\ UNCHANGED <<backend, busy, signals,
                   mgr_vars, agent_vars, phase, history, nchats, op_result,
                   parsed, overlapped>>

\* the loop resumes the suspended coroutine: the running one is over or
\* is itself suspended at the await of line 246
SwitchTask ==
    /\ chat.pc \in {"idle", "await_tool", "done", "failed"}
    /\ parked.pc = "await_tool"
    /\ chat' = parked
    /\ parked' = chat
    /\ UNCHANGED <<backend, busy, signals,
                   mgr_vars, agent_vars, phase, history, nchats, op_result,
                   parsed, overlapped>>

\* TaskCancel with the connections of the agent closed by the cancellation
TaskCancelReleases ==
    /\ chat.pc = "await_tool"
    /\ chat' = [chat EXCEPT
                  !.pc = "failed", !.raised = "CancelledError",
                  !.answers = Append(@, NoAnswer("CancelledError"))]
    /\ objects' = clean_loop(clients, objects,
                             [i \in 1..Len(clients) |-> FALSE]).objects
    /\ UNCHANGED <<server_path, clients, tool_map, tool_info, resource_map,
                   agent_vars, phase, history, nchats, op_result, parsed,
                   task_vars>>

\* the task that drives chat is cancelled: CancelledError is raised at the
\* await the coroutine is suspended at and propagates out of chat
TaskCancel ==
    /\ chat.pc = "await_tool"
    /\ chat' = [chat EXCEPT
                  !.pc = "failed", !.raised = "CancelledError",
                  !.answers = Append(@, NoAnswer("CancelledError"))]
    /\ UNCHANGED <<mgr_vars, agent_vars, phase, history, nchats, op_result,
                   parsed, task_vars>>

\* _shutdown_async runs __aexit__, that is clean_agent, while no chat is
\* running: each of them is over or suspended
TaskShutdown(raises) ==
    /\ phase = "ready"
    /\ chat.pc \in {"idle", "await_tool", "done", "failed"}
    /\ phase' = "closed"
    /\ LET r == clean_loop(clients, objects, raises)
       IN  /\ objects' = r.objects
           /\ op_result' = [NoResult EXCEPT !.op = "clean_agent",
                                            !.raised = r.raised]
    /\ UNCHANGED <<server_path, clients, tool_map, tool_info, resource_map,
                   agent_vars, chat_vars, parsed, task_vars>>

(***************************************************************************)
(* backend.py and main.py: the thread of AgentBackend with its event loop, *)
(* and the window on the UI thread.  The loop runs _startup, then the      *)
(* _handle_message coroutine of every message sent in, then the shutdown.  *)
(* A signal emitted on the backend thread is queued to the UI thread and   *)
(* reaches its slot later.                                                 *)
(***************************************************************************)

\* AgentBackend.__init__ and start(): loop and agent tell whether _loop
\* and _agent are set, run where the thread stands, scheduled holds the
\* texts of the coroutines handed to the loop and not yet started, sent
\* counts the messages sent, func_scheme_list is the local of init_agent
NoBackend ==
    [loop |-> FALSE, agent |-> FALSE, run |-> "new", scheduled |-> <<>>,
     sent |-> 0, func_scheme_list |-> <<>>]

\* run_until_complete or run_forever is running the loop
LoopRuns ==
    backend.run \in {"connecting", "listing_tools", "listing_resources",
                     "running"}

\* the task of _handle_message does not hold the thread of the loop: there
\* is none or it is over, or it waits at the await of a tool call or at
\* the await of run_in_executor
Suspended(c) ==
    \/ c.handler \in {"none", "ended", "cancelled"}
    \/ c.handler = "chat" /\ c.pc = "await_tool"
    \/ c.handler = "speaking"

\* run, lines 29-44: the loop is made and stored, _startup makes and
\* stores the agent, registers the server, and __aenter__ runs init_agent up
\* to the await of the connect
BackendRun ==
    /\ backend.run = "new"
    /\ backend' = [backend EXCEPT !.loop = TRUE, !.agent = TRUE,
                                  !.run = "connecting"]
    /\ server_path' = Append(server_path, RunServer)
    /\ op_result' = [NoResult EXCEPT !.op = "register_mcp"]
    /\ UNCHANGED <<clients, tool_map, tool_info, resource_map, objects,
                   agent_vars, chat_vars, phase, parsed,
                   parked, overlapped, busy, signals>>

\* init_mcp_client comes back to init_agent, which goes on to the await of
\* list_tools; or it raises, and run (lines 60-62) emits error and returns
StartupConnect(outcome) ==
    /\ backend.run = "connecting"
    /\ Suspended(chat)
    /\ LET r == init_loop(server_path, objects, clients, <<outcome>>)
       IN  /\ objects' = r.objects
           /\ clients' = r.clients
           /\ op_result' = [NoResult EXCEPT !.op = "init_mcp_client",
                                            !.raised = r.raised]
           /\ backend' = IF r.raised = "none"
                         THEN [backend EXCEPT !.run = "listing_tools"]
                         ELSE [backend EXCEPT !.run = "failed"]
           /\ phase' = IF r.raised = "none" THEN phase ELSE "init_failed"
    /\ UNCHANGED <<server_path, tool_map, tool_info, resource_map,
                   agent_vars, chat_vars, parsed,
                   parked, overlapped, busy, signals>>

\* get_func_scheme comes back to init_agent, which goes on to the await of
\* list_resources, or it raises
StartupTools(fails) ==
    /\ backend.run = "listing_tools"
    /\ Suspended(chat)
    /\ LET r == get_func_scheme(clients, objects, tool_map, tool_info,
                                <<fails>>)
       IN  /\ tool_map' = r.tool_map
           /\ tool_info' = r.tool_info
           /\ op_result' = [NoResult EXCEPT !.op = "get_func_scheme",
                                            !.raised = r.raised]
           /\ backend' = IF r.raised = "none"
                         THEN [backend EXCEPT
                                 !.run = "listing_resources",
                                 !.func_scheme_list = r.func_scheme_list]
                         ELSE [backend EXCEPT !.run = "failed"]
           /\ phase' = IF r.raised = "none" THEN phase ELSE "init_failed"
    /\ UNCHANGED <<server_path, clients, resource_map, objects,
                   agent_vars, chat_vars, parsed,
                   parked, overlapped, busy, signals>>

\* get_resource_list comes back: init_agent stores the prompts and ends,
\* _startup emits idle and run goes on to run_forever; or it raises
StartupResources(fails) ==
    /\ backend.run = "listing_resources"
    /\ Suspended(chat)
    /\ LET r == get_resource_list(clients, objects, resource_map, <<fails>>)
       IN  /\ resource_map' = r.resource_map
           /\ op_result' = [NoResult EXCEPT !.op = "init_agent",
                                            !.raised = r.raised]
           /\ IF r.raised = "none"
              THEN /\ func_scheme_prompt' =
                          json_dumps(backend.func_scheme_list)
                   /\ resource_prompt' = json_dumps(r.resource_list)
                   /\ system_prompt' = get_system_prompt(SYSTEM_PROMPT)
                   /\ phase' = "ready"
                   /\ backend' = [backend EXCEPT !.run = "running"]
                   /\ signals' = Append(signals, "idle")
              ELSE /\ UNCHANGED agent_vars
                   /\ phase' = "init_failed"
                   /\ backend' = [backend EXCEPT !.run = "failed"]
                   /\ signals' = signals
    /\ UNCHANGED <<server_path, clients, tool_map, tool_info, objects,
                   chat_vars, parsed, parked, overlapped, busy>>

\* MainWindow.on_send_clicked, on the UI thread, with the call of
\* submit_user_message it ends with: the input is disabled, and the
\* coroutine is handed to the loop unless _loop or _agent is not set
on_send_clicked(text) ==
    /\ ~busy
    /\ backend.run # "stopped"
    /\ backend.sent < MaxTasks
    /\ busy' = TRUE
    /\ backend' = IF ~backend.loop \/ ~backend.agent
                  THEN [backend EXCEPT !.sent = @ + 1]
                  ELSE [backend EXCEPT !.sent = @ + 1,
                                       !.scheduled = Append(@, text)]
    /\ UNCHANGED <<mgr_vars, agent_vars, chat_vars, phase, op_result, parsed,
                   parked, overlapped, signals>>

\* MainWindow.on_state_changed, on the UI thread, for the oldest signal
\* queued to it: idle enables the input again (the text of the label is
\* left out)
on_state_changed ==
    /\ signals # <<>>
    /\ backend.run # "stopped"
    /\ busy' = IF Head(signals) = "idle" THEN FALSE ELSE busy
    /\ signals' = Tail(signals)
    /\ UNCHANGED <<mgr_vars, agent_vars, chat_vars, phase, op_result, parsed,
                   parked, overlapped, backend>>

\* the loop starts the oldest coroutine handed to it: _handle_message
\* emits thinking and calls chat, which puts the user turn in the history
HandleBegin ==
    /\ LoopRuns
    /\ Suspended(chat)
    /\ backend.scheduled # <<>>
    /\ \/ /\ chat.handler \notin {"chat", "speaking"}
          /\ parked' = parked
       \/ /\ chat.handler \in {"chat", "speaking"}
          /\ parked.handler \notin {"chat", "speaking"}
          /\ parked' = chat
    /\ backend' = [backend EXCEPT !.scheduled = Tail(@)]
    /\ nchats' = nchats + 1
    /\ history' = append_history(history,
                     get_user_prompt(Head(backend.scheduled),
                                     TOOL_CALL_PROMPT(func_scheme_prompt)))
    /\ chat' = [IdleChat EXCEPT !.pc = "gen1",
                                !.question = Head(backend.scheduled),
                                !.start = Len(history),
                                !.handler = "chat",
                                !.emitted = <<<<"state_changed", "thinking">>>>]
    /\ signals' = Append(signals, "thinking")
    /\ overlapped' = (overlapped \/ InFlight(chat) \/ InFlight(parked))
    /\ op_result' = [NoResult EXCEPT !.op = "chat"]
    /\ UNCHANGED <<mgr_vars, agent_vars, phase, parsed, busy>>

\* the loop resumes the other task
BackendSwitch ==
    /\ LoopRuns
    /\ Suspended(chat)
    /\ parked.handler \in {"chat", "speaking"}
    /\ chat' = parked
    /\ parked' = chat
    /\ UNCHANGED <<mgr_vars, agent_vars, phase, history, nchats, op_result,
                   parsed, overlapped, backend, busy, signals>>

\* chat has returned: lines 96-113 up to the await of run_in_executor, with
\* one tool_event for each part of the response that is not text; the
\* final text is never empty, and _tts was set before the loop first ran
HandleReturn ==
    /\ chat.handler = "chat"
    /\ chat.pc = "done"
    /\ LET parts == SelectSeq(chat.returned[1], LAMBDA r : r.type # "text")
           tool_events == [i \in 1..Len(parts) |->
                              <<"tool_event", parts[i].type>>]
       IN  chat' = [chat EXCEPT
                      !.handler = "speaking",
                      !.emitted = @ \o tool_events
                                    \o <<<<"assistant_text", "final_text">>,
                                         <<"state_changed", "speaking">>>>]
    /\ signals' = Append(signals, "speaking")
    /\ UNCHANGED <<mgr_vars, agent_vars, phase, history, nchats, op_result,
                   parsed, parked, overlapped, backend, busy>>

\* lines 117-120 without the last emit
except_Exception_no_idle(c, e) ==
    [c EXCEPT !.handler = "ended",
              !.emitted = @ \o <<<<"state_changed", "error">>, <<"error", e>>>>]

\* lines 117-120: the handler of except Exception
except_Exception(c, e) ==
    [c EXCEPT !.handler = "ended",
              !.emitted = @ \o <<<<"state_changed", "error">>, <<"error", e>>,
                                 <<"state_changed", "idle">>>>]

\* chat has raised an Exception
HandleRaise ==
    /\ chat.handler = "chat"
    /\ chat.pc = "failed"
    /\ chat' = except_Exception(chat, chat.raised)
    /\ signals' = signals \o <<"error", "idle">>
    /\ UNCHANGED <<mgr_vars, agent_vars, phase, history, nchats, op_result,
                   parsed, parked, overlapped, backend, busy>>

\* the await of run_in_executor ends: speak has returned, and line 115
\* emits idle, or it has raised
SpeakReturn(fails) ==
    /\ LoopRuns
    /\ chat.handler = "speaking"
    /\ chat' = IF fails
               THEN except_Exception(chat, "TTSError")
               ELSE [chat EXCEPT !.handler = "ended",
                                 !.emitted = Append(@, <<"state_changed", "idle">>)]
    /\ signals' = IF fails THEN signals \o <<"error", "idle">>
                  ELSE Append(signals, "idle")
    /\ UNCHANGED <<mgr_vars, agent_vars, phase, history, nchats, op_result,
                   parsed, parked, overlapped, backend, busy>>

\* lines 72-74: a task that is still pending is cancelled; CancelledError
\* is raised at its await and is no Exception, so that lines 117-120 do
\* not run
cancel(c) ==
    IF c.handler \notin {"chat", "speaking"} THEN c
    ELSE IF c.handler = "speaking" THEN [c EXCEPT !.handler = "cancelled"]
    ELSE [c EXCEPT !.handler = "cancelled",
                   !.pc = "failed", !.raised = "CancelledError",
                   !.answers = Append(@, NoAnswer("CancelledError"))]

\* the application quits: shutdown hands _shutdown_async to the loop, which
\* runs __aexit__ and stops the loop; run then cancels the pending tasks
BackendShutdown(raises) ==
    /\ backend.run = "running"
    /\ Suspended(chat)
    /\ backend' = [backend EXCEPT !.run = "stopped"]
    /\ phase' = "closed"
    /\ LET r == clean_loop(clients, objects, raises)
       IN  /\ objects' = r.objects
           /\ op_result' = [NoResult EXCEPT !.op = "clean_agent",
                                            !.raised = r.raised]
    /\ chat' = cancel(chat)
    /\ parked' = cancel(parked)
    /\ UNCHANGED <<server_path, clients, tool_map, tool_info, resource_map,
                   agent_vars, history, nchats, parsed, overlapped,
                   busy, signals>>

(***************************************************************************)
(* The parser of the agent on its own: the clean-up of a raw generation    *)
(* (lines 304-311), the test of line 316 and the decomposition of lines    *)
(* 224-229, applied to one text, one step each                             *)
(***************************************************************************)

\* the identifiers and the parameter strings the call lists are made of:
\* no parameter, a quoted value, an unquoted one, a value with a blank
CallNames  == {<<"f">>, <<"g","2">>}
CallParams ==
    {<<>>, <<"k","=","\"","v","\"">>, <<"k","=","1">>,
     <<"k","=","\"","x"," ","y","\"">>}

CallStructs == [name : CallNames, params : CallParams]

\* the lists of one to MaxCalls calls
CallLists == UNION {[1..n -> CallStructs] : n \in 1..MaxCalls}

\* how the model separates two calls of a list
Separators == {<<",">>, <<","," ">>}

\* func_name(params)
CallText(call) == call.name \o <<"(">> \o call.params \o <<")">>

RECURSIVE JoinCalls(_, _)
JoinCalls(calls, sep) ==
    IF Len(calls) = 1 THEN CallText(calls[1])
    ELSE CallText(Head(calls)) \o sep \o JoinCalls(Tail(calls), sep)

\* [func_name1(), func_name2(params), ...]
CallListText(calls, sep) == <<"[">> \o JoinCalls(calls, sep) \o <<"]">>

\* texts that are not rendered from a list of calls
SampleCall       ==
    <<"[","f","o","o","(",")","]">>
SampleProse      ==
    <<"T","h","e"," ","a","n","s","w","e","r"," ","i","s"," ","4","2",".">>
SampleUnbalanced ==
    <<"[","f","o","o","(",","," ","]">>
SampleTrailing   ==
    <<"[","f","o","o","(",")","]"," ","H","e","r","e"," ","i","s"," ","t","h","e"," ","r","e","s","u","l","t">>

Samples == {SampleCall, SampleProse, SampleUnbalanced, SampleTrailing}

\* what the model may put around its answer
Wraps == {<<>>, <<" ">>, <<Backtick>>, <<"(">>, <<")">>, <<"{"," ">>}

WrappedTexts ==
    {prefix \o text \o suffix :
        prefix \in Wraps, suffix \in Wraps,
        text \in {<<"[","f","(",")","]">>, <<"h","i">>}}

\* no text is in the parser
IdleParse ==
    [stage |-> "none", raw |-> <<>>,
     listed |-> FALSE,       \* raw was rendered from the list calls
     calls |-> <<>>,
     response |-> <<>>,      \* the normalized text
     tool_required |-> FALSE,
     matches |-> <<>>,       \* res[0] of each signature that matched
     func_props |-> <<>>]    \* what get_func_props yielded

\* the raw generations the parser is given
ParserInputs ==
    {[IdleParse EXCEPT !.stage = "raw", !.raw = CallListText(calls, sep),
                       !.listed = TRUE, !.calls = calls] :
        calls \in CallLists, sep \in Separators}
    \cup {[IdleParse EXCEPT !.stage = "raw", !.raw = text] :
             text \in Samples \cup WrappedTexts}

\* the (name, param_string) pairs of lines 224-228: res[0] of every
\* signature func_pattern finds a call in
RECURSIVE signatures2matches(_)
signatures2matches(sigs) ==
    IF sigs = <<>> THEN <<>>
    ELSE LET signature == strip(Head(sigs), Whitespace)
         IN  IF FuncStarts(signature) # {}
             THEN <<func_pattern_first(signature)>>
                  \o signatures2matches(Tail(sigs))
             ELSE signatures2matches(Tail(sigs))

func_matches(response) ==
    signatures2matches(split(strip(response, BracketChars), ","))

\* lines 304-311: generate returns the raw text stripped, chat normalizes it
ParserGenerate ==
    /\ parsed.stage = "raw"
    /\ parsed' = [parsed EXCEPT !.stage = "normalized",
                                !.response = normalize(generate(parsed.raw))]
    /\ UNCHANGED <<mgr_vars, agent_vars, chat_vars, phase, op_result,
                   task_vars>>

\* line 316: the text asks for tools, or it is the final answer
ParserIsToolRequired ==
    /\ parsed.stage = "normalized"
    /\ LET required == is_tool_required(parsed.response)
       IN  parsed' = [parsed EXCEPT
                        !.stage = IF required THEN "matched" ELSE "final",
                        !.tool_required = required]
    /\ UNCHANGED <<mgr_vars, agent_vars, chat_vars, phase, op_result,
                   task_vars>>

\* lines 224-229 on a text that asks for tools
ParserGetFuncProps ==
    /\ parsed.stage = "matched"
    /\ parsed' = [parsed EXCEPT
                    !.stage = "decomposed",
                    !.matches = func_matches(parsed.response),
                    !.func_props = get_func_props(parsed.response)]
    /\ UNCHANGED <<mgr_vars, agent_vars, chat_vars, phase, op_result,
                   task_vars>>

(***************************************************************************)
(* Specifications                                                          *)
(***************************************************************************)

Init ==
    /\ server_path = <<>>
    /\ clients = <<>>
    /\ tool_map = EmptyDict
    /\ tool_info = EmptyDict
    /\ resource_map = EmptyDict
    /\ objects = <<>>
    /\ func_scheme_prompt = <<>>
    /\ resource_prompt = <<>>
    /\ system_prompt = <<>>
    /\ history = <<>>
    /\ phase = "new"
    /\ chat = IdleChat
    /\ nchats = 0
    /\ op_result = NoResult
    /\ parsed = IdleParse
    /\ parked = IdleChat
    /\ overlapped = FALSE
    /\ backend = NoBackend
    /\ busy = FALSE
    /\ signals = <<>>

\* the agent as run_agent.py uses it: register, enter the context, chat,
\* leave the context
Next ==
    \/ \E path \in Paths : AgentRegisterMcp(path)
    \/ \E outcomes \in [1..Len(server_path) -> ConnectOutcomes],
          tool_fails \in [1..Len(server_path) -> BOOLEAN],
          rsrc_fails \in [1..Len(server_path) -> BOOLEAN] :
          InitAgent(outcomes, tool_fails, rsrc_fails)
    \/ \E raises \in [1..Len(clients) -> BOOLEAN] : CleanAgent(raises)
    \/ \E question \in Questions : ChatBegin(question)
    \/ \E output \in ModelOutputs : Generate1(output)
    \/ Generate1Fails
    \/ SendTool
    \/ \E outcome \in CallOutcomes : ToolReturn(outcome)
    \/ ToolsDone
    \/ \E output \in FinalOutputs : Generate2(output)
    \/ Generate2Fails
    \/ ChatReturn

Spec == Init /\ [][Next]_vars


\* the manager on its own, its operations called in any order
NextManager ==
    \/ \E path \in Paths : RegisterMcp(path)
    \/ \E outcomes \in [1..Len(server_path) -> ConnectOutcomes] :
          InitMcpClient(outcomes)
    \/ \E fails \in [1..Len(clients) -> BOOLEAN] : GetFuncScheme(fails)
    \/ \E fails \in [1..Len(clients) -> BOOLEAN] : GetResourceList(fails)
    \/ \E name \in ToolNames, param \in ArgDicts, outcome \in CallOutcomes :
          CallTool(name, param, outcome)
    \/ \E raises \in [1..Len(clients) -> BOOLEAN] : CleanMcpClient(raises)

SpecManager == Init /\ [][NextManager]_vars

\* MCPClient objects on their own, their methods called in any order
NextClient ==
    \/ ClientNew
    \/ \E id \in 1..Len(objects), path \in Paths, outcome \in ConnectOutcomes :
          ClientConnect(id, path, outcome)
    \/ \E id \in 1..Len(objects), fails \in BOOLEAN : ClientListTools(id, fails)
    \/ \E id \in 1..Len(objects), fails \in BOOLEAN :
          ClientListResources(id, fails)
    \/ \E id \in 1..Len(objects), name \in ToolNames, args \in ArgDicts,
          outcome \in CallOutcomes : ClientCallTool(id, name, args, outcome)
    \/ \E id \in 1..Len(objects), raises \in BOOLEAN : ClientCleanup(id, raises)

SpecClient == Init /\ [][NextClient]_vars

\* the parser on its own: a raw generation is drawn, then cleaned,
\* classified and decomposed
InitParser ==
    /\ server_path = <<>>
    /\ clients = <<>>
    /\ tool_map = EmptyDict
    /\ tool_info = EmptyDict
    /\ resource_map = EmptyDict
    /\ objects = <<>>
    /\ func_scheme_prompt = <<>>
    /\ resource_prompt = <<>>
    /\ system_prompt = <<>>
    /\ history = <<>>
    /\ phase = "new"
    /\ chat = IdleChat
    /\ nchats = 0
    /\ op_result = NoResult
    /\ parsed \in ParserInputs
    /\ parked = IdleChat
    /\ overlapped = FALSE
    /\ backend = NoBackend
    /\ busy = FALSE
    /\ signals = <<>>

NextParser ==
    \/ ParserGenerate
    \/ ParserIsToolRequired
    \/ ParserGetFuncProps

SpecParser == InitParser /\ [][NextParser]_vars

\* the agent as backend.py drives it, from the end of _startup on
InitTasks ==
    /\ server_path = StartedPaths
    /\ clients = Started.clients
    /\ tool_map = Started.tool_map
    /\ tool_info = Started.tool_info
    /\ resource_map = Started.resource_map
    /\ objects = Started.objects
    /\ func_scheme_prompt = Started.func_scheme_prompt
    /\ resource_prompt = Started.resource_prompt
    /\ system_prompt = get_system_prompt(SYSTEM_PROMPT)
    /\ history = <<>>
    /\ phase = "ready"
    /\ chat = IdleChat
    /\ nchats = 0
    /\ op_result = [NoResult EXCEPT !.op = "init_agent"]
    /\ parsed = IdleParse
    /\ parked = IdleChat
    /\ overlapped = FALSE
    /\ backend = NoBackend
    /\ busy = FALSE
    /\ signals = <<>>

NextTasks ==
    \/ \E question \in Questions : TaskChatBegin(question)
    \/ \E output \in TaskOutputs : Generate1(output)
    \/ Generate1Fails
    \/ SendTool
    \/ \E outcome \in CallOutcomes : ToolReturn(outcome)
    \/ ToolsDone
    \/ \E output \in TaskFinalOutputs : Generate2(output)
    \/ Generate2Fails
    \/ ChatReturn
    \/ SwitchTask
    \/ TaskCancel
    \/ \E raises \in [1..Len(clients) -> BOOLEAN] : TaskShutdown(raises)

SpecTasks == InitTasks /\ [][NextTasks]_vars

\* the loop of run_agent.py once init_agent has returned: chats, one after
\* the other
NextChat ==
    \/ \E question \in Questions : ChatBegin(question)
    \/ \E output \in ModelOutputs : Generate1(output)
    \/ Generate1Fails
    \/ SendTool
    \/ \E outcome \in CallOutcomes : ToolReturn(outcome)
    \/ ToolsDone
    \/ \E output \in FinalOutputs : Generate2(output)
    \/ Generate2Fails
    \/ ChatReturn

\* the same where a chat that does not wait for a tool server goes on: the
\* generations are synchronous calls and the code between two awaits runs
\* without a break; the answer of a tool server comes from another process
\* and may never come
SpecChatFair ==
    /\ InitTasks
    /\ [][NextChat]_vars
    /\ WF_vars(NextChat /\ InFlight(chat) /\ chat.pc # "await_tool")

\* the answer to the tool call a task of the backend awaits reaches it
\* while the loop runs
BackendToolReturn(outcome) == LoopRuns /\ ToolReturn(outcome)

\* main.py: the window is shown and the thread of the backend is started
NextBackend ==
    \/ BackendRun
    \/ \E outcome \in ConnectOutcomes : StartupConnect(outcome)
    \/ \E fails \in BOOLEAN : StartupTools(fails)
    \/ \E fails \in BOOLEAN : StartupResources(fails)
    \/ \E text \in {"Say hi"} : on_send_clicked(text)
    \/ on_state_changed
    \/ HandleBegin
    \/ BackendSwitch
    \/ \E output \in {OutPlain, OutOneCall} : Generate1(output)
    \/ Generate1Fails
    \/ SendTool
    \/ \E outcome \in CallOutcomes : BackendToolReturn(outcome)
    \/ ToolsDone
    \/ \E output \in TaskFinalOutputs : Generate2(output)
    \/ Generate2Fails
    \/ ChatReturn
    \/ HandleReturn
    \/ HandleRaise
    \/ \E fails \in BOOLEAN : SpeakReturn(fails)
    \/ \E raises \in [1..Len(clients) -> BOOLEAN] : BackendShutdown(raises)

SpecBackend == Init /\ [][NextBackend]_vars


(***************************************************************************)
(* Properties of Agent.chat                                                *)
(***************************************************************************)

\* the first generation of the current chat has returned
HasFirst == chat.output \in ModelOutputs

\* its normalized text matched tool_pattern
Matched == HasFirst /\ FirstPhase[chat.output].tool_required

\* the number of turns the current chat has appended to the history
Grown == Len(history) - chat.start

\* their roles, in the order appended
TurnRoles == [i \in 1..Grown |-> history[chat.start + i].role]

\* the types of the responses chat returned
ReturnedTypes ==
    [i \in 1..Len(chat.returned[1]) |-> chat.returned[1][i].type]

\* C1: when the normalized first generation does not match the call-list
\* grammar, a chat that returns returns exactly one response, of type text,
\* the history has grown by the user turn and one assistant turn, no tool
\* was invoked and generate was called once.
C1_NoMatchOneText ==
    (chat.pc = "done" /\ HasFirst /\ ~Matched) =>
        /\ ReturnedTypes = <<"text">>
        /\ TurnRoles = <<"user", "assistant">>
        /\ chat.invoked = <<>>
        /\ Len(chat.generated) = 1

C1_Witness ==
    /\ chat.pc = "done"
    /\ HasFirst /\ ~Matched
    /\ Len(chat.returned) = 1
    /\ Grown = 2

\* C2: when the normalized first generation matches the grammar, whatever
\* the number of parsed calls, a chat that returns returns the three
\* responses tool-calling, tool-result, text in that order, and the history
\* has grown by the four turns user, assistant, tool result, assistant.
C2_MatchThreeResponses ==
    (chat.pc = "done" /\ Matched) =>
        /\ ReturnedTypes = <<"tool-calling", "tool-result", "text">>
        /\ TurnRoles = <<"user", "assistant", "tool", "assistant">>

C2_Witness ==
    /\ chat.pc = "done"
    /\ Matched
    /\ Len(chat.calls) = 1
    /\ Len(chat.returned) = 1
    /\ Grown = 4

\* The original statement of C3: every interaction, however it ends, appends
\* exactly 2 or exactly 4 turns to the history.
C3_TwoOrFourAlways ==
    (chat.pc \in {"done", "failed"}) => Grown \in {2, 4}

\* C3: an interaction that returns appends exactly 2 turns (no match) or
\* exactly 4 (match); one that ends in a failure leaves the turns appended
\* before the failure: 1 when the first generation fails, 2 when a tool is
\* unknown or its invocation raises, 3 when the second generation fails.
C3_TurnsPerEnding ==
    /\ (chat.pc = "done") => Grown = (IF Matched THEN 4 ELSE 2)
    /\ (chat.pc = "failed" /\ chat.raised = "GenerationError")
          => /\ Grown = (IF Len(chat.generated) = 1 THEN 1 ELSE 3)
             /\ Len(chat.generated) \in {1, 2}
    /\ (chat.pc = "failed" /\ chat.raised # "GenerationError")
          => /\ Grown = 2
             /\ TurnRoles = <<"user", "assistant">>

C3_Witness ==
    /\ chat.pc = "failed"
    /\ chat.raised = "GenerationError"
    /\ Len(chat.generated) = 2
    /\ Grown = 3

\* C4: a failure of generate, in the first or in the second phase, ends
\* chat with that failure and nothing is returned, whatever responses chat
\* had built by then.
C4_GenerateFailurePropagates ==
    (chat.raised = "GenerationError")
        => /\ chat.pc = "failed"
           /\ chat.returned = <<>>

C4_Witness ==
    /\ chat.pc = "failed"
    /\ chat.raised = "GenerationError"
    /\ Len(chat.response_list) = 2
    /\ chat.returned = <<>>

(***************************************************************************)
(* Properties of tool resolution and invocation                            *)
(***************************************************************************)

\* C5: call_tool on the manager with a name that tool_map does not hold
\* raises MCPException, whatever the arguments and whatever the state of
\* the manager, and no request is put on any session.
C5_UnknownNameRaises ==
    (op_result.op = "call_tool" /\ op_result.name \notin DOMAIN tool_map)
        => /\ op_result.raised = "MCPException"
           /\ op_result.forwarded = <<>>
           /\ op_result.value = <<>>

C5_Witness ==
    /\ op_result.op = "call_tool"
    /\ op_result.name = nope_tool
    /\ op_result.param # EmptyDict
    /\ DOMAIN tool_map # {}
    /\ op_result.raised = "MCPException"

\* the first call parsed from the response names a tool tool_map lacks
FirstUnknown ==
    /\ Len(chat.calls) > 0
    /\ chat.calls[1].name \notin DOMAIN tool_map

\* C6: when the first parsed call names an unknown tool, chat ends with
\* MCPException; the history then holds, for this interaction, the user
\* message followed by the tool-call message of the assistant and nothing
\* else, generate was called once, and nothing was sent or returned.
C6_FirstUnknownAborts ==
    FirstUnknown =>
        \/ /\ chat.pc = "tools"
           /\ chat.k = 0
           /\ chat.invoked = <<>>
        \/ /\ chat.pc = "failed"
           /\ chat.raised = "MCPException"
           /\ TurnRoles = <<"user", "assistant">>
           /\ history[chat.start + 1] =
                  get_user_prompt(chat.question,
                                  TOOL_CALL_PROMPT(func_scheme_prompt))
           /\ history[chat.start + 2] = get_assistant_prompt(chat.response)
           /\ Len(chat.generated) = 1
           /\ chat.invoked = <<>>
           /\ chat.returned = <<>>

C6_Witness ==
    /\ FirstUnknown
    /\ DOMAIN tool_map # {}
    /\ chat.pc = "failed"
    /\ chat.raised = "MCPException"
    /\ Grown = 2

\* an awaited request was answered with isError set
Flagged(i) ==
    /\ chat.answers[i].raised = "none"
    /\ chat.answers[i].isError

ErrorFlagged == \E i \in 1..Len(chat.answers) : Flagged(i)

\* C7: an answer with isError set does not make chat raise: its texts enter
\* result_list like those of any answer, the loop goes on with the next
\* call, and a chat that meets no other failure generates a second time
\* and returns tool-calling, tool-result (the serialised result_list, one
\* entry per call) and text.
C7_ErrorFlagAbsorbed ==
    /\ \A i \in 1..Len(chat.answers) :
          Flagged(i) =>
             /\ i <= Len(chat.result_list)
             /\ chat.result_list[i] = [name   |-> chat.calls[i].name,
                                       output |-> chat.answers[i].content]
    /\ (ErrorFlagged /\ chat.pc = "failed") =>
          \/ chat.raised = "GenerationError"
          \/ /\ chat.raised = "MCPException"
             /\ chat.k < Len(chat.calls)
             /\ chat.calls[chat.k + 1].name \notin DOMAIN tool_map
          \/ /\ chat.answers[Len(chat.answers)].raised # "none"
             /\ chat.raised = chat.answers[Len(chat.answers)].raised
    /\ (ErrorFlagged /\ chat.pc = "done") =>
          /\ chat.raised = "none"
          /\ Len(chat.result_list) = Len(chat.calls)
          /\ Len(chat.generated) = 2
          /\ ReturnedTypes = <<"tool-calling", "tool-result", "text">>
          /\ chat.returned[1][2].data = json_dumps(chat.result_list)

C7_Witness ==
    /\ chat.pc = "done"
    /\ Len(chat.calls) = 2
    /\ Flagged(1)
    /\ ~Flagged(2)
    /\ Len(chat.returned) = 1

\* the interaction stopped at its i-th invocation
StoppedAt(i) ==
    /\ chat.pc = "failed"
    /\ Len(chat.invoked) = i
    /\ Len(chat.generated) = 1
    /\ Grown = 2
    /\ chat.returned = <<>>

\* The original statement of C8: an unknown name, and equally an answer
\* with the error flag set, ends the interaction there: nothing is invoked
\* after it, nothing is generated and nothing is returned.
C8_AnyToolFailureAborts ==
    /\ (chat.raised = "MCPException") => StoppedAt(Len(chat.answers))
    /\ \A i \in 1..Len(chat.answers) :
          (chat.answers[i].raised # "none" \/ chat.answers[i].isError)
              => StoppedAt(i)

\* C8: an unknown name, and an invocation that raises, end the interaction
\* there with that failure: no later call is invoked, generate is not
\* called again and nothing is returned.  An answer with the error flag set
\* ends nothing: its call is counted as done.
C8_RaisedToolFailureAborts ==
    /\ (chat.raised = "MCPException")
          => /\ StoppedAt(Len(chat.answers))
             /\ chat.k < Len(chat.calls)
             /\ chat.calls[chat.k + 1].name \notin DOMAIN tool_map
    /\ \A i \in 1..Len(chat.answers) :
          /\ (chat.answers[i].raised # "none")
                => /\ StoppedAt(i)
                   /\ chat.raised = chat.answers[i].raised
                   /\ chat.k = i - 1
          /\ Flagged(i) => (chat.k >= i \/ chat.pc = "failed")
    /\ (chat.pc \in {"gen2", "final", "done"})
          => /\ chat.k = Len(chat.calls)
             /\ \A i \in 1..Len(chat.answers) : chat.answers[i].raised = "none"

C8_Witness ==
    /\ Len(chat.calls) = 2
    /\ Len(chat.answers) = 1
    /\ chat.answers[1].raised = "McpError"
    /\ StoppedAt(1)

\* C9: the requests are put on the sessions in the order of the parsed
\* calls, each one only after the one before it was answered: at most one
\* request is unanswered, and only while chat awaits it.
C9_OneInFlight ==
    /\ Len(chat.invoked) - Len(chat.answers)
          = (IF chat.pc = "await_tool" THEN 1 ELSE 0)
    /\ Len(chat.invoked) <= Len(chat.calls)
    /\ \A i \in 1..Len(chat.invoked) :
          /\ chat.invoked[i].name = chat.calls[i].name
          /\ chat.invoked[i].args = chat.calls[i].param
          /\ chat.invoked[i].client = clients[tool_map[chat.calls[i].name] + 1]

C9_Witness ==
    /\ chat.pc = "await_tool"
    /\ Len(chat.invoked) = 2
    /\ Len(chat.answers) = 1
    /\ chat.invoked[1].name # chat.invoked[2].name

\* the client at position idx of self.clients lists a tool of this name
Exports(idx, name) ==
    LET tools == ServerTools(objects[clients[idx + 1]].server)
    IN  \E i \in 1..Len(tools) : tools[i].name = name

\* the positions in self.clients of the clients that list the name
Exporters(name) == {idx \in 0..(Len(clients) - 1) : Exports(idx, name)}

\* the last of them
LastExporter(name) ==
    CHOOSE idx \in Exporters(name) : \A j \in Exporters(name) : j <= idx

\* get_func_scheme has just returned its list
Aggregated ==
    /\ op_result.op = "get_func_scheme"
    /\ op_result.raised = "none"

\* C10: when get_func_scheme returns, every name that several clients list
\* is mapped to the last of them in the order of connection, and a
\* call_tool of that name made then puts one request on the session of
\* that client and none on any other.
C10_LastServerWins ==
    /\ [](Aggregated =>
            \A name \in ToolNames :
               Exporters(name) # {} =>
                  /\ name \in DOMAIN tool_map
                  /\ tool_map[name] = LastExporter(name))
    /\ [][(Aggregated /\ op_result'.op = "call_tool"
             /\ Exporters(op_result'.name) # {})
          => /\ Len(op_result'.forwarded) = 1
             /\ op_result'.forwarded[1].client
                   = clients[LastExporter(op_result'.name) + 1]
             /\ op_result'.forwarded[1].name = op_result'.name]_vars

C10_Witness ==
    /\ Len(clients) = 2
    /\ objects[clients[1]].server = RunServer
    /\ objects[clients[2]].server = OtherServer
    /\ echo_tool \in DOMAIN tool_map
    /\ tool_map[echo_tool] = 1
    /\ op_result.op = "call_tool"
    /\ op_result.name = echo_tool
    /\ Len(op_result.forwarded) = 1
    /\ op_result.forwarded[1].client = clients[2]

(***************************************************************************)
(* Properties of the life of the connections                               *)
(***************************************************************************)

\* C11: when clean_mcp_client ends, by a return or by an exception, the
\* cleanup of every client in self.clients has run: none of them is left
\* with a context still on its exit_stack.
C11_TeardownAttemptsAll ==
    (op_result.op = "clean_mcp_client")
        => \A i \in 1..Len(clients) : objects[clients[i]].exit_stack = <<>>

\* the clients a step appended to self.clients
NewlyHeld == {clients'[i] : i \in (Len(clients) + 1)..Len(clients')}

\* init_mcp_client ends in this step with an exception
InitFails ==
    /\ op_result'.op = "init_mcp_client"
    /\ op_result'.raised # "none"

\* C12: when init_mcp_client raises on a path, the client made for that
\* path is the last one made (no later path is launched) and none of the
\* clients connected by this call before it stays in self.clients with an
\* open session.
C12_FailedInitHoldsNothing ==
    [][InitFails =>
          /\ Len(objects') > Len(objects)
          /\ objects'[Len(objects')].name = <<>>
          /\ \A id \in NewlyHeld : ~SessionOpen(objects'[id])]_vars

\* C13: when init_mcp_client returns, self.clients holds one client per
\* registered path, the i-th of them connected to the i-th path.
C13_OneClientPerPath ==
    (op_result.op = "init_mcp_client" /\ op_result.raised = "none")
        => /\ Len(clients) = Len(server_path)
           /\ \A i \in 1..Len(clients) :
                 objects[clients[i]].server = server_path[i]

\* C14: register_mcp appends the path to self.server_path and changes
\* nothing else: no client is made or connected, and tool_map, tool_info
\* and resource_map stay as they were.
C14_RegisterOnlyRecords ==
    [][(op_result'.op = "register_mcp")
          => /\ Len(server_path') = Len(server_path) + 1
             /\ SubSeq(server_path', 1, Len(server_path)) = server_path
             /\ server_path'[Len(server_path')] \in Paths
             /\ UNCHANGED <<clients, objects, tool_map, tool_info,
                            resource_map>>]_vars

C14_Witness ==
    /\ op_result.op = "register_mcp"
    /\ Len(server_path) = 2
    /\ Len(clients) = 1
    /\ DOMAIN tool_map # {}

\* get_resource_list has just returned its list
ResourcesListed ==
    /\ op_result.op = "get_resource_list"
    /\ op_result.raised = "none"

\* The original statement of C15: a listing repeated right after it
\* returned, the clients and what they list being the same, leaves its
\* maps different from what the first pass left.
C15_SecondPassDiffers ==
    [][/\ (Aggregated /\ op_result'.op = "get_func_scheme"
              /\ op_result'.raised = "none")
          => (tool_map' # tool_map \/ tool_info' # tool_info)
       /\ (ResourcesListed /\ op_result'.op = "get_resource_list"
              /\ op_result'.raised = "none")
          => resource_map' # resource_map]_vars

\* every key of the map is kept, with its index or a smaller one
Regressed(old, new) ==
    /\ DOMAIN new = DOMAIN old
    /\ \A key \in DOMAIN old : new[key] <= old[key]

\* C15: get_func_scheme and get_resource_list repeated right after they
\* returned, the clients and what they list being the same, and returning
\* again, write every entry again with the value it has: tool_map,
\* tool_info and resource_map stay as the first pass left them and the
\* same list is returned.  Only a second pass that raises part-way can
\* leave entries changed, each mapped to an earlier client than before.
C15_SecondPassSame ==
    [][/\ (Aggregated /\ op_result'.op = "get_func_scheme")
          => /\ op_result'.again
             /\ tool_info' = tool_info
             /\ IF op_result'.raised = "none"
                THEN /\ tool_map' = tool_map
                     /\ op_result'.value = op_result.value
                ELSE Regressed(tool_map, tool_map')
       /\ (ResourcesListed /\ op_result'.op = "get_resource_list")
          => /\ op_result'.again
             /\ IF op_result'.raised = "none"
                THEN /\ resource_map' = resource_map
                     /\ op_result'.value = op_result.value
                ELSE Regressed(resource_map, resource_map')]_vars

C15_Witness ==
    /\ Aggregated
    /\ op_result.again
    /\ Len(clients) = 2
    /\ echo_tool \in DOMAIN tool_map
    /\ tool_map[echo_tool] = 1
    /\ Len(op_result.value) = 3

(***************************************************************************)
(* Properties of one MCPClient                                             *)
(***************************************************************************)

\* C16: connect_to_server with a path that does not exist raises
\* FileNotFoundError and leaves the client as __init__ made it: no
\* subprocess launched, nothing on the exit_stack, no session, no name.
C16_MissingPathRaisesEarly ==
    (op_result.op = "connect_to_server" /\ ~PathExists(op_result.value[1]))
        => /\ op_result.raised = "FileNotFoundError"
           /\ objects[op_result.client] = NewClient
           /\ objects[op_result.client].server = ""
           /\ objects[op_result.client].exit_stack = <<>>

C16_Witness ==
    /\ op_result.op = "connect_to_server"
    /\ op_result.value = <<MissingPath>>
    /\ op_result.raised = "FileNotFoundError"
    /\ op_result.client = 2
    /\ objects[1].session

\* initialize has returned on the client: its name is set
Handshaken(client) == client.name # <<>>

\* C17: list_tools, list_resources and call_tool on a client whose
\* connect_to_server has not completed the handshake (never called, or
\* failed) raise and put no request on a session.
C17_NothingBeforeHandshake ==
    (/\ op_result.op \in {"list_tools", "list_resources", "call_tool"}
     /\ op_result.client > 0
     /\ ~Handshaken(objects[op_result.client]))
        => /\ op_result.raised # "none"
           /\ op_result.forwarded = <<>>

\* the sequence in reverse
Reverse(seq) == [i \in 1..Len(seq) |-> seq[Len(seq) + 1 - i]]

\* C18: cleanup exits every context connect_to_server entered, the session
\* before the transport, whether or not the handshake had completed and
\* whether or not the exit of the session raises; connect_to_server enters
\* the transport first and the session second.
C18_CleanupReleasesAll ==
    /\ [](\A id \in 1..Len(objects) :
            /\ objects[id].exit_stack \in {<<>>, <<"stdio", "session">>}
            /\ objects[id].released \in {<<>>, <<"session", "stdio">>}
            /\ (objects[id].server # "")
                  => (objects[id].exit_stack # <<>>
                         \/ objects[id].released # <<>>))
    /\ [][(op_result'.op = "cleanup")
             => LET id == op_result'.client
                IN  /\ objects'[id].exit_stack = <<>>
                    /\ objects'[id].released =
                          objects[id].released \o Reverse(objects[id].exit_stack)
                    /\ \A other \in (1..Len(objects)) \ {id} :
                          objects'[other] = objects[other]]_vars

C18_Witness ==
    /\ op_result.op = "cleanup"
    /\ op_result.raised = "CloseError"
    /\ ~Handshaken(objects[op_result.client])
    /\ objects[op_result.client].released = <<"session", "stdio">>
    /\ objects[op_result.client].exit_stack = <<>>

(***************************************************************************)
(* Properties of Agent.chat: retries, and the calls parsed from a match    *)
(***************************************************************************)

\* C19: nothing is tried twice.  generate is called once with the tool
\* prompt and, after a match, once more with the last three messages, and
\* not again after it raised; the i-th request put on a session is the
\* i-th parsed call, sent to the client tool_map names, so each call is
\* sent at most once, and exactly once when chat gets past the loop; after
\* a request raised no further request is sent.
C19_NothingRetried ==
    /\ Len(chat.generated) <= 2
    /\ (Len(chat.generated) >= 1)
          => chat.generated[1] = get_generation_prompt(TRUE, DefaultLast)
    /\ (Len(chat.generated) = 2)
          => /\ Matched
             /\ chat.generated[2] = get_generation_prompt(FALSE, FinalLast)
    /\ (chat.pc = "done")
          => Len(chat.generated) = (IF Matched THEN 2 ELSE 1)
    /\ Len(chat.invoked) <= Len(chat.calls)
    /\ Len(chat.answers) <= Len(chat.invoked)
    /\ \A i \in 1..Len(chat.invoked) :
          chat.invoked[i] =
             [client |-> clients[tool_map[chat.calls[i].name] + 1],
              name   |-> chat.calls[i].name,
              args   |-> chat.calls[i].param]
    /\ (chat.pc \in {"gen2", "final", "done"})
          => Len(chat.invoked) = Len(chat.calls)
    /\ \A i \in 1..Len(chat.answers) :
          (chat.answers[i].raised # "none")
              => (Len(chat.invoked) = i /\ chat.pc = "failed")

C19_Witness ==
    /\ chat.pc = "failed"
    /\ Len(chat.calls) = 2
    /\ Len(chat.answers) = 2
    /\ Flagged(1)
    /\ chat.answers[2].raised = "McpError"
    /\ Len(chat.invoked) = 2
    /\ Len(chat.generated) = 1

\* C20: a response that tool_pattern matches gives get_func_props at least
\* one call, so that a chat that gets past the loop has the result of at
\* least one tool.
C20_MatchYieldsCalls ==
    /\ Matched => Len(FirstPhase[chat.output].func_props) >= 1
    /\ (Matched /\ chat.pc \in {"tools", "await_tool", "gen2", "final", "done"})
          => Len(chat.calls) >= 1
    /\ (Matched /\ chat.pc \in {"gen2", "final", "done"})
          => Len(chat.result_list) >= 1

(***************************************************************************)
(* Properties of the parser                                                *)
(***************************************************************************)

\* the text has been through line 316
Classified == parsed.stage \in {"matched", "final", "decomposed"}

\* C21: the test of line 316 is a match of the whole text: a text that
\* begins with a list of calls and goes on after the closing bracket is
\* not taken as a tool call but as the final answer.
C21_WholeStringMatch ==
    /\ (Classified /\ parsed.tool_required)
          => tool_pattern_fullmatch(parsed.response)
    /\ (Classified /\ parsed.raw = SampleTrailing) => parsed.stage = "final"

\* C22: the test of line 316 is true for a bracketed list of well-formed
\* calls, "[foo()]" among them, and false for the prose "The answer is 42."
\* and for the unbalanced "[foo(, ]".
C22_AcceptsListsRejectsProse ==
    Classified =>
        /\ parsed.raw = SampleCall => parsed.tool_required
        /\ parsed.listed => parsed.tool_required
        /\ parsed.raw = SampleProse => ~parsed.tool_required
        /\ parsed.raw = SampleUnbalanced => ~parsed.tool_required

C22_Witness ==
    /\ parsed.raw = SampleUnbalanced
    /\ parsed.stage = "final"
    /\ parsed.response = SampleUnbalanced

C26_NoiseTrimmed ==
    (parsed.stage \notin {"none", "raw"} /\ parsed.response # <<>>) =>
        /\ parsed.response[1] \notin (Whitespace \cup StrayChars)
        /\ parsed.response[Len(parsed.response)]
              \notin (Whitespace \cup StrayChars)

(***************************************************************************)
(* Properties of chats that run as tasks of one loop                       *)
(***************************************************************************)

\* the turn a response of chat goes to the history as
ResponseTurn(r) ==
    IF r.type = "tool-result" THEN get_tool_result_prompt(r.data)
    ELSE get_assistant_prompt(r.data)

\* the turns a chat has appended so far, in the order it appended them:
\* the user message, then one turn for each response it has emitted
Turns(c) ==
    <<get_user_prompt(c.question, TOOL_CALL_PROMPT(func_scheme_prompt))>>
    \o [i \in 1..Len(c.response_list) |-> ResponseTurn(c.response_list[i])]

\* the same turn: the content of a user turn is a question, that of the
\* other turns a text or a serialised value
SameTurn(a, b) == a.role = b.role /\ a = b

\* the turns of c are next to each other in the history
Contiguous(c) ==
    /\ c.start + Len(Turns(c)) <= Len(history)
    /\ \A i \in 1..Len(Turns(c)) : SameTurn(history[c.start + i], Turns(c)[i])

\* turns are found in h from position from on, in their order
RECURSIVE Embeds(_, _, _)
Embeds(turns, h, from) ==
    IF turns = <<>> THEN TRUE
    ELSE IF from > Len(h) THEN FALSE
    ELSE IF SameTurn(h[from], Head(turns))
         THEN Embeds(Tail(turns), h, from + 1)
    ELSE Embeds(turns, h, from + 1)

\* C23: the turns of a chat are in the history in the order the chat
\* appended them, from the place the history had reached when it was
\* called; while no two chats have been in flight together they are also
\* next to each other.  With two chats in flight together a state is
\* reached where a turn of the second lies between two turns of the first
\* (C23_Witness).
C23_SerializedContiguous ==
    \A c \in {chat, parked} :
        c.pc # "idle" =>
            /\ c.start + 1 <= Len(history)
            /\ SameTurn(history[c.start + 1], Turns(c)[1])
            /\ Embeds(Turns(c), history, c.start + 1)
            /\ ~overlapped => Contiguous(c)

C23_Witness ==
    /\ overlapped
    /\ chat.pc = "done"
    /\ parked.pc = "done"
    /\ chat.question # parked.question
    /\ chat.start < parked.start
    /\ Len(chat.response_list) = 3
    /\ SameTurn(history[parked.start + 1], Turns(parked)[1])
    /\ SameTurn(history[Len(history)], Turns(chat)[4])
    /\ parked.start + 1 < Len(history)
    /\ ~Contiguous(chat)

\* the connections the manager holds whose session is open
Live == {i \in 1..Len(clients) : SessionOpen(objects[clients[i]])}

\* C24: a connection is closed or removed only by the teardown of
\* __aexit__: no step of a chat, whether the chat returns, raises or is
\* cancelled, and no call of the registry made by a chat changes the
\* clients or their sessions, so that until the teardown the connections
\* are the ones the start-up opened.
C24_OnlyTeardownReleases ==
    /\ [](phase = "ready" =>
            /\ clients = Started.clients
            /\ objects = Started.objects
            /\ Live = 1..Len(clients))
    /\ [][(clients' # clients \/ objects' # objects \/ Live' # Live)
            => /\ phase = "ready"
               /\ phase' = "closed"
               /\ op_result'.op = "clean_agent"]_vars

C24_Witness ==
    /\ phase = "ready"
    /\ chat.pc = "failed"
    /\ chat.raised = "CancelledError"
    /\ parked.pc = "done"
    /\ Len(chat.invoked) = 2
    /\ Live = {1}

(***************************************************************************)
(* What chat returns and what it leaves in the history                     *)
(***************************************************************************)

\* C27: when chat returns, the payload of its text response is the answer
\* of the last assistant turn it appended: the normalized first-phase text
\* when that text asked for no tool, the second generation otherwise; and
\* the payload of the tool-calling response is the answer of the first
\* assistant turn it appended.
C27_PayloadsAreTurns ==
    chat.pc = "done" =>
        LET rl == chat.returned[1]
            n  == Len(rl)
        IN  /\ n >= 1
            /\ rl[n].type = "text"
            /\ SameTurn(history[Len(history)], get_assistant_prompt(rl[n].data))
            /\ ~Matched =>
                  /\ n = 1
                  /\ rl[n].data = normalize(generate(chat.output))
                  /\ Len(history) = chat.start + 2
            /\ Matched =>
                  /\ n = 3
                  /\ rl[n].data \in {generate(o) : o \in FinalOutputs}
                  /\ Len(history) = chat.start + 4
                  /\ rl[1].type = "tool-calling"
                  /\ rl[1].data = normalize(generate(chat.output))
                  /\ SameTurn(history[chat.start + 2],
                              get_assistant_prompt(rl[1].data))

C27_Witness ==
    /\ chat.pc = "done"
    /\ Matched
    /\ chat.output = OutWrapped
    /\ chat.output # chat.returned[1][1].data
    /\ chat.returned[1][3].data = generate(OutAnswer)
    /\ history[4].content = generate(OutAnswer)

\* the chat has emitted its tool-result response
HasToolResult(c) ==
    Len(c.response_list) >= 2 /\ c.response_list[2].type = "tool-result"

\* one entry for each parsed call, in the order parsed: the name of the
\* call and the text outputs of its invocation
ResultEntries(c) ==
    [i \in 1..Len(c.calls) |->
        [name |-> c.calls[i].name, output |-> c.answers[i].content]]

\* C28: the payload of the tool-result response is the serialised list
\* with one entry for each parsed call, in the order parsed, made of the
\* name of the call and of the outputs of that invocation, two calls of
\* one tool giving two entries; the same payload is the tool-result turn
\* of the history.
C28_OneEntryPerCall ==
    \A c \in {chat, parked} :
        HasToolResult(c) =>
            /\ Len(c.answers) = Len(c.calls)
            /\ Len(c.result_list) = Len(c.calls)
            /\ c.result_list = ResultEntries(c)
            /\ c.response_list[2].data = json_dumps(ResultEntries(c))
            /\ \E i \in (c.start + 3)..Len(history) :
                  SameTurn(history[i],
                           get_tool_result_prompt(c.response_list[2].data))
            /\ ~overlapped =>
                  SameTurn(history[c.start + 3],
                           get_tool_result_prompt(c.response_list[2].data))

C28_Witness ==
    /\ chat.pc = "done"
    /\ chat.output = OutSameTwice
    /\ Len(chat.calls) = 2
    /\ chat.calls[1].name = chat.calls[2].name
    /\ chat.answers[1].isError
    /\ ~chat.answers[2].isError
    /\ chat.returned[1][2].data =
          json_dumps(<<[name |-> echo_tool, output |-> chat.answers[1].content],
                       [name |-> echo_tool, output |-> <<"hi">>]>>)
    /\ chat.answers[1].content # <<"hi">>

\* the last n turns of the history
LastTurns(n) == SubSeq(history, Len(history) - n + 1, Len(history))

OtherTaskRuns ==
    \/ SwitchTask
    \/ \E question \in Questions : TaskChatBegin(question)
    \/ \E raises \in [1..Len(clients) -> BOOLEAN] : TaskShutdown(raises)

\* The original statement of C30: a chat can be suspended, so that
\* another task of the loop runs, inside a generation as well as while it
\* awaits a tool.
C30_GenerateSuspends ==
    (phase = "ready" /\ chat.pc \in {"gen1", "gen2", "await_tool"})
        => ENABLED OtherTaskRuns

\* C30: the only points at which a chat is suspended so that another task
\* of the loop runs are the awaited tool invocations; self.llm.generate is
\* called without await, so that from the call of chat to its first tool
\* await, between two tool awaits and from the last one to the return no
\* other task runs, and a chat that is not running is suspended at a tool
\* await or is over.
C30_OnlyToolAwaitSuspends ==
    /\ (phase = "ready" /\ chat.pc = "await_tool") => ENABLED OtherTaskRuns
    /\ chat.pc \in {"gen1", "gen2", "tools", "final"} => ~ENABLED OtherTaskRuns
    /\ parked.pc \in {"idle", "await_tool", "done", "failed"}

C30_Witness ==
    /\ phase = "ready"
    /\ parked.pc = "await_tool"
    /\ chat.pc = "gen1"
    /\ ~ENABLED OtherTaskRuns

(***************************************************************************)
(* Properties of the maps and of the resources of the manager              *)
(***************************************************************************)

\* C31: the list of clients is written by init_mcp_client only, tool_map
\* and tool_info by get_func_scheme only and resource_map by
\* get_resource_list only; register_mcp, call_tool and clean_mcp_client
\* leave the four of them as they are, so that after clean_mcp_client a
\* known name still leads call_tool to its client, closed by then.
C31_MapsWrittenByInitOnly ==
    [][/\ (clients' # clients) => op_result'.op = "init_mcp_client"
       /\ (tool_map' # tool_map \/ tool_info' # tool_info)
             => op_result'.op = "get_func_scheme"
       /\ (resource_map' # resource_map)
             => op_result'.op = "get_resource_list"
       /\ (op_result'.op \in {"register_mcp", "call_tool", "clean_mcp_client"})
             => UNCHANGED <<clients, tool_map, tool_info, resource_map>>
       /\ (/\ op_result'.op = "call_tool"
           /\ op_result'.name \in DOMAIN tool_map
           /\ ~SessionOpen(objects[clients[tool_map[op_result'.name] + 1]]))
             => op_result'.raised = "ClosedResourceError"]_vars

C31_Witness ==
    /\ op_result.op = "call_tool"
    /\ op_result.name = reverse_tool
    /\ reverse_tool \in DOMAIN tool_map
    /\ Len(clients) > tool_map[reverse_tool]
    /\ objects[clients[tool_map[reverse_tool] + 1]].released # <<>>
    /\ ~SessionOpen(objects[clients[tool_map[reverse_tool] + 1]])
    /\ op_result.raised = "ClosedResourceError"

(***************************************************************************)
(* Termination of Agent.chat                                               *)
(***************************************************************************)

AwaitsTool == chat.pc = "await_tool"

Ended == chat.pc \in {"done", "failed"}

\* C32: a chat in flight comes to its end unless it waits for ever for one
\* tool invocation, so it ends when every invocation is answered; and a
\* chat that awaits an invocation does nothing until the answer is there:
\* it does not end, sends no later request and starts no second generation.
C32_EndsUnlessToolHangs ==
    /\ [](InFlight(chat) => <>(Ended \/ [](AwaitsTool)))
    /\ [][AwaitsTool => \/ chat' = chat
                        \/ /\ Len(chat'.answers) = Len(chat.answers) + 1
                           /\ chat'.invoked = chat.invoked
                           /\ chat'.generated = chat.generated
                           /\ chat'.pc \in {"tools", "failed"}]_vars

C32_Witness ==
    /\ AwaitsTool
    /\ Len(chat.calls) = 2
    /\ Len(chat.invoked) = 1
    /\ Len(chat.generated) = 1
    /\ chat.answers = <<>>

(***************************************************************************)
(* The list of tool schemas and the indices of tool_map                    *)
(***************************************************************************)

NamesUnique(list) ==
    \A i, j \in 1..Len(list) : list[i].name = list[j].name => i = j

\* C33: the list of tool schemas get_func_scheme returns, which init_agent
\* serialises into func_scheme_prompt, holds no two entries of one name,
\* also when two connected servers list a tool of the same name.
C33_DescriptorNamesUnique ==
    (phase = "ready") => NamesUnique(func_scheme_prompt.json)

\* C34: whatever operations of the manager have run, failed or been
\* repeated, every value of tool_map is an index of self.clients, so that
\* call_tool with a known name never indexes outside the list.
C34_ToolMapIndexesClients ==
    /\ \A name \in DOMAIN tool_map :
          0 <= tool_map[name] /\ tool_map[name] < Len(clients)
    /\ op_result.raised # "IndexError"

C34_Witness ==
    /\ op_result.op = "call_tool"
    /\ op_result.name \in DOMAIN tool_map
    /\ tool_map[op_result.name] = Len(clients) - 1
    /\ Len(clients) = 2
    /\ op_result.forwarded # <<>>

(***************************************************************************)
(* What is released when the agent is left and when the manager is cleaned *)
(***************************************************************************)

\* the client has launched a subprocess whose contexts are still entered
HoldsProcess(client) == client.exit_stack # <<>>

\* C35: when the block of async with is left, after the body or because
\* init_agent raised, no client made during the initialisation still holds
\* the subprocess it launched.
C35_BlockLeftReleasesAll ==
    (phase \in {"closed", "init_failed"})
        => \A i \in 1..Len(objects) : ~HoldsProcess(objects[i])

\* C36: when clean_mcp_client has returned, no client init_mcp_client ever
\* made still holds a subprocess or a session, the client whose handshake
\* failed after its subprocess was launched included.
C36_TeardownReleasesAll ==
    (op_result.op = "clean_mcp_client" /\ op_result.raised = "none")
        => \A i \in 1..Len(objects) : ~HoldsProcess(objects[i])

(***************************************************************************)
(* Properties of the backend thread and of the window                      *)
(***************************************************************************)

\* C37: in the backend a chat is entered only when init_agent has come to
\* its end: the connections are made, the tools and resources are listed
\* and the prompts are stored, whenever the message was sent.
C37_ChatAfterInit ==
    [][(nchats' = nchats + 1) => phase = "ready"]_vars

\* the arguments of the state_changed signals among the emitted ones
StateArgs(e) ==
    LET states == SelectSeq(e, LAMBDA s : s[1] = "state_changed")
    IN  [i \in 1..Len(states) |-> states[i][2]]

Count(e, signal) == Len(SelectSeq(e, LAMBDA s : s[1] = signal))

\* thinking, speaking if any, idle, with the text emitted once
AnsweredShape(e) ==
    /\ StateArgs(e) \in {<<"thinking", "idle">>,
                         <<"thinking", "speaking", "idle">>}
    /\ Count(e, "assistant_text") = 1
    /\ Count(e, "error") = 0

\* thinking, ..., error, idle, with the error signal once, between the two
FailedShape(e) ==
    /\ StateArgs(e) \in {<<"thinking", "error", "idle">>,
                         <<"thinking", "speaking", "error", "idle">>}
    /\ Count(e, "error") = 1
    /\ e[Len(e) - 2] = <<"state_changed", "error">>
    /\ e[Len(e) - 1][1] = "error"
    /\ e[Len(e)] = <<"state_changed", "idle">>

\* thinking, speaking if any, and nothing after
CutShape(e) ==
    /\ StateArgs(e) \in {<<"thinking">>, <<"thinking", "speaking">>}
    /\ Count(e, "error") = 0

\* The original statement of C38: every _handle_message that has come to
\* its end, the one cancelled at the shutdown included, has emitted
\* thinking first and idle last, with the text once or the error once.
C38_EveryHandlerEndsIdle ==
    \A c \in {chat, parked} :
        (c.handler \in {"ended", "cancelled"})
            => AnsweredShape(c.emitted) \/ FailedShape(c.emitted)

\* C38: every _handle_message that has returned has emitted thinking
\* first and idle last, with the text once when chat and speak succeeded
\* and the error once, between error and idle, when one of them raised;
\* one that was cancelled at the shutdown has emitted thinking, speaking if
\* it had come that far, and neither error nor idle.
C38_ReturnedHandlerEndsIdle ==
    \A c \in {chat, parked} :
        /\ (c.handler = "ended")
              => AnsweredShape(c.emitted) \/ FailedShape(c.emitted)
        /\ (c.handler = "cancelled") => CutShape(c.emitted)

C38_Witness ==
    /\ chat.handler = "cancelled"
    /\ StateArgs(chat.emitted) = <<"thinking">>
    /\ parked.handler = "ended"
    /\ StateArgs(parked.emitted) = <<"thinking", "speaking", "error", "idle">>
    /\ Count(parked.emitted, "assistant_text") = 1

\* C39: with the input of the window disabled from a send to the next
\* idle, no two chats of the agent of the backend are in flight together,
\* whenever the messages were sent.
C39_OneChatInFlight == ~(InFlight(chat) /\ InFlight(parked))

====
